---- MODULE Spec2Model ----
(***************************************************************************)
(* Provenance accounting of the sonnun editor.                             *)
(*                                                                         *)
(* Two builds of the editor pane live in the repository and are modelled  *)
(* side by side on the same document:                                      *)
(*   - the hook build: hooks/useProvenanceTracking (boolean skip flag),    *)
(*     hooks/useCitationHandler, components/EditorPane.tsx, App.tsx;       *)
(*   - the counter build: the EditorPane/App pair that keeps               *)
(*     skipUpdateCountRef (a number).                                       *)
(* Both are driven by the same AssistantPanel.  Strings are sequences of   *)
(* one-character strings.                                                   *)
(***************************************************************************)
EXTENDS Integers, Sequences, FiniteSets, TLC

(***************************************************************************)
(* Bounds of the model.                                                    *)
(***************************************************************************)
MaxEvents == 2
MaxTyped == 1
MaxMessages == 2
MaxPastes == 2
MaxClock == 1

(***************************************************************************)
(* Text helpers.                                                           *)
(***************************************************************************)
Whitespace == {" "}

\* String.prototype.trim: whitespace is removed from both ends
Trim(s) ==
  LET RECURSIVE TrimStart(_)
      TrimStart(t) ==
        IF t # <<>> /\ Head(t) \in Whitespace THEN TrimStart(Tail(t)) ELSE t
      RECURSIVE TrimEnd(_)
      TrimEnd(t) ==
        IF t # <<>> /\ t[Len(t)] \in Whitespace
        THEN TrimEnd(SubSeq(t, 1, Len(t) - 1)) ELSE t
  IN TrimEnd(TrimStart(s))

\* String.prototype.slice(from, to) for 0 <= from, 0-based, end exclusive
Slice(s, from, to) == SubSeq(s, from + 1, to)

\* s with t inserted at 0-based offset p
InsertAt(s, p, t) == SubSeq(s, 1, p) \o t \o SubSeq(s, p + 1, Len(s))

(***************************************************************************)
(* findInsertedText of useProvenanceTracking: common prefix, then common   *)
(* suffix, indices 0-based as in the source.                               *)
(***************************************************************************)
RECURSIVE PrefixScan(_, _, _)
PrefixScan(oldText, newText, start) ==
  IF start < Len(oldText) /\ start < Len(newText) /\ oldText[start + 1] = newText[start + 1]
  THEN PrefixScan(oldText, newText, start + 1)
  ELSE start

RECURSIVE SuffixScan(_, _, _, _, _)
SuffixScan(oldText, newText, start, oldEnd, newEnd) ==
  IF oldEnd >= start /\ newEnd >= start /\ oldText[oldEnd + 1] = newText[newEnd + 1]
  THEN SuffixScan(oldText, newText, start, oldEnd - 1, newEnd - 1)
  ELSE newEnd

\* a diff that strips the common prefix only
findInsertedTextPrefixOnly(oldText, newText) ==
  Slice(newText, PrefixScan(oldText, newText, 0), Len(newText))

findInsertedText(oldText, newText) ==
  LET start == PrefixScan(oldText, newText, 0)
      newEnd == SuffixScan(oldText, newText, start, Len(oldText) - 1, Len(newText) - 1)
  IN Slice(newText, start, newEnd + 1)

(***************************************************************************)
(* findInsertedText of the counter build: the added parts of               *)
(* diffChars(oldText, newText), concatenated.  diffChars yields a shortest *)
(* edit script; the added characters are the characters of newText outside *)
(* one longest common subsequence.                                         *)
(***************************************************************************)
RECURSIVE LcsLen(_, _)
LcsLen(a, b) ==
  IF a = <<>> \/ b = <<>> THEN 0
  ELSE IF Head(a) = Head(b) THEN 1 + LcsLen(Tail(a), Tail(b))
  ELSE LET x == LcsLen(Tail(a), b)
           y == LcsLen(a, Tail(b))
       IN IF x >= y THEN x ELSE y

RECURSIVE AddedChars(_, _)
AddedChars(a, b) ==
  IF b = <<>> THEN <<>>
  ELSE IF a = <<>> THEN b
  ELSE IF Head(a) = Head(b) /\ 1 + LcsLen(Tail(a), Tail(b)) >= LcsLen(a, Tail(b))
       THEN AddedChars(Tail(a), Tail(b))
  ELSE IF LcsLen(a, Tail(b)) >= LcsLen(Tail(a), b)
       THEN <<Head(b)>> \o AddedChars(a, Tail(b))
  ELSE AddedChars(Tail(a), b)

findInsertedTextDiff(oldText, newText) ==
  LET start == PrefixScan(oldText, newText, 0)
      newEnd == SuffixScan(oldText, newText, start, Len(oldText) - 1, Len(newText) - 1)
      oldEnd == Len(oldText) - (Len(newText) - newEnd)
  IN AddedChars(Slice(oldText, start, oldEnd + 1), Slice(newText, start, newEnd + 1))

(***************************************************************************)
(* The editor document.  One paragraph; a character carries its            *)
(* provenanceMark attributes (type "none" when unmarked), its link href    *)
(* (<<>> when not linked) and, as history, the operation that inserted it  *)
(* and the paste it came from.                                             *)
(***************************************************************************)
\* useEditor content: '<p>Start writing your document...</p>'
InitialContent == <<"S", "t", "a", "r", "t", " ", "w", "r", "i", "t", "i", "n", "g", " ", "y", "o", "u", "r", " ", "d", "o", "c", "u", "m", "e", "n", "t", ".", ".", ".">>

User == <<"u", "s", "e", "r">>

Plain(c, origin) ==
  [ch |-> c, type |-> "none", source |-> <<>>, link |-> <<>>, origin |-> origin, paste |-> 0]

Marked(c, type, source, origin, paste) ==
  [ch |-> c, type |-> type, source |-> source, link |-> <<>>, origin |-> origin, paste |-> paste]

PlainText(t, origin) == [i \in 1..Len(t) |-> Plain(t[i], origin)]

MarkedText(t, type, source, origin, paste) ==
  [i \in 1..Len(t) |-> Marked(t[i], type, source, origin, paste)]

\* editor.getText()
getText(d) == [i \in 1..Len(d) |-> d[i].ch]

VARIABLES
  doc,           \* the editor document
  hook,          \* useProvenanceTracking refs: skipNextUpdateRef, lastContentRef
  events,        \* hook build: events handed to invoke('log_provenance_event'), in call order
  inflight,      \* hook build: indices of events whose invoke has not settled
  store,         \* persisted events (indices into events) in the order they were appended
  diagnostics,   \* indices of events whose invoke was rejected (console.error)
  pane,          \* counter build refs: skipUpdateCountRef, lastContentRef
  eventsC,       \* counter build: events handed to invoke, in call order
  panelSkip,     \* counter build: App has re-rendered, AssistantPanel holds skipNextUpdate
  citationModal, \* useCitationHandler state: isOpen, pastedText, insertPosition
  citation,      \* CitationModal input state
  messages,      \* AssistantPanel chat messages
  isLoading,     \* AssistantPanel: a query_ai_assistant call is pending
  requests,      \* the invoke('query_ai_assistant') calls that have not settled
  clock,         \* Date.now(), in milliseconds
  cancelled,     \* history: pastes whose citation dialog was cancelled
  outstanding,   \* history: programmatic insertions that requested a skip, minus the
                 \* notifications delivered since
  last,          \* history: what the last editor handler did
  keys,          \* the keys directory: the stored key pair (0: none)
  signedManifest,\* the SignedManifest returned by sign_document
  file,          \* the exported HTML file
  verification,  \* the outcome of the last run of sonnun-verify
  alerted,       \* the alert and console message of the last run of handleExport
  classified,    \* the statistics last computed by the classifier, with their input
  generated,     \* the last call of generateCompleteManifest: arguments and result
  diffed,        \* the last run of the update handlers on a pair of texts
  hashed,        \* the calls of hashContent: content and returned hash, in call order
  validated      \* the last call of validateProvenanceEvent: argument and result

vars == <<doc, hook, events, inflight, store, diagnostics, pane, eventsC, panelSkip,
          citationModal, citation, messages, isLoading, requests, clock, cancelled,
          outstanding, last, keys, signedManifest, file, verification, alerted,
          classified, generated, diffed, hashed, validated>>

editorVars == <<doc, hook, events, inflight, pane, eventsC, panelSkip, outstanding, last>>

panelVars == <<messages, isLoading, requests>>

modalVars == <<citationModal, citation, cancelled>>

exportVars == <<keys, signedManifest, file, verification, alerted>>

reportVars == <<classified, generated, diffed, hashed, validated>>

(***************************************************************************)
(* logProvenanceEvent: builds the event and calls invoke.  The call is not *)
(* awaited by any caller; it settles later (InvokeSettles).                *)
(***************************************************************************)
logProvenanceEvent(evs, eventType, text, source, spanLength, now, cause) ==
  Append(evs, [timestamp |-> now, event_type |-> eventType, text |-> text,
               source |-> source, span_length |-> spanLength, cause |-> cause])

(***************************************************************************)
(* handleEditorUpdate of useProvenanceTracking (boolean skip flag).        *)
(***************************************************************************)
\* a handler without the guard on the lengths
handleEditorUpdateUnguarded(h, evs, currentText, now, cause) ==
  IF h.skipNextUpdateRef
  THEN [hook |-> [skipNextUpdateRef |-> FALSE, lastContentRef |-> currentText],
        events |-> evs, skipped |-> TRUE]
  ELSE LET insertedText == findInsertedText(h.lastContentRef, currentText)
       IN [hook |-> [h EXCEPT !.lastContentRef = currentText],
           events |-> IF Len(Trim(insertedText)) > 0
                      THEN logProvenanceEvent(evs, "human", insertedText, User,
                                              Len(insertedText), now, cause)
                      ELSE evs,
           skipped |-> FALSE]

\* a handler that leaves lastContentRef as it is when it skips
handleEditorUpdateStale(h, evs, currentText, now, cause) ==
  IF h.skipNextUpdateRef
  THEN [hook |-> [h EXCEPT !.skipNextUpdateRef = FALSE], events |-> evs, skipped |-> TRUE]
  ELSE LET insertedText == findInsertedText(h.lastContentRef, currentText)
       IN [hook |-> [h EXCEPT !.lastContentRef = currentText],
           events |-> IF Len(currentText) > Len(h.lastContentRef)
                         /\ Len(Trim(insertedText)) > 0
                      THEN logProvenanceEvent(evs, "human", insertedText, User,
                                              Len(insertedText), now, cause)
                      ELSE evs,
           skipped |-> FALSE]

handleEditorUpdate(h, evs, currentText, now, cause) ==
  IF h.skipNextUpdateRef
  THEN [hook |-> [skipNextUpdateRef |-> FALSE, lastContentRef |-> currentText],
        events |-> evs, skipped |-> TRUE]
  ELSE LET lastText == h.lastContentRef
           insertedText == findInsertedText(lastText, currentText)
       IN [hook |-> [h EXCEPT !.lastContentRef = currentText],
           events |-> IF Len(currentText) > Len(lastText) /\ Len(Trim(insertedText)) > 0
                      THEN logProvenanceEvent(evs, "human", insertedText, User,
                                              Len(insertedText), now, cause)
                      ELSE evs,
           skipped |-> FALSE]

(***************************************************************************)
(* handleEditorUpdate of the counter build (skipUpdateCountRef).           *)
(***************************************************************************)
handleEditorUpdateCounter(p, evs, currentText, now, cause) ==
  IF p.skipUpdateCountRef > 0
  THEN [pane |-> [skipUpdateCountRef |-> p.skipUpdateCountRef - 1,
                  lastContentRef |-> currentText],
        events |-> evs, skipped |-> TRUE]
  ELSE LET lastText == p.lastContentRef
           insertedText == findInsertedTextDiff(lastText, currentText)
       IN [pane |-> [p EXCEPT !.lastContentRef = currentText],
           events |-> IF Len(currentText) > Len(lastText) /\ Len(Trim(insertedText)) > 0
                      THEN logProvenanceEvent(evs, "human", insertedText, User,
                                              Len(insertedText), now, cause)
                      ELSE evs,
           skipped |-> FALSE]

\* setSkipFlag of useProvenanceTracking
setSkipFlag(S) ==
  [S EXCEPT !.hook.skipNextUpdateRef = TRUE]

\* the setSkipFlag closure of the counter build: skipUpdateCountRef.current += 1
incSkipCount(S) ==
  [S EXCEPT !.pane.skipUpdateCountRef = @ + 1]

\* history: a programmatic insertion starts and requests its skip
Programmatic(S) == [S EXCEPT !.outstanding = @ + 1]

(***************************************************************************)
(* The tracking state a handler threads through its calls, and the         *)
(* delivery of one 'update' notification to both builds.  Tiptap emits     *)
(* 'update' synchronously from the command that changed the document.      *)
(***************************************************************************)
Tracking ==
  [hook |-> hook, events |-> events, pane |-> pane, eventsC |-> eventsC,
   outstanding |-> outstanding, updates |-> <<>>]

Dec(n) == IF n > 0 THEN n - 1 ELSE 0

EmitUpdate(S, currentText, now, cause) ==
  LET f == handleEditorUpdate(S.hook, S.events, currentText, now, cause)
      c == handleEditorUpdateCounter(S.pane, S.eventsC, currentText, now, cause)
  IN [hook |-> f.hook, events |-> f.events, pane |-> c.pane, eventsC |-> c.events,
      outstanding |-> Dec(S.outstanding),
      updates |-> Append(S.updates,
                    [cause |-> cause,
                     pending |-> S.outstanding,
                     skippedHook |-> f.skipped,
                     skippedPane |-> c.skipped,
                     loggedHook |-> Len(f.events) > Len(S.events),
                     loggedPane |-> Len(c.events) > Len(S.eventsC)])]

(***************************************************************************)
(* What an editor handler leaves: the document d and the tracking state R. *)
(* A changed document makes onUpdate report new statistics to App, which   *)
(* re-renders.  realized is the number of insertions of non-whitespace     *)
(* text the handler made in the document.  The model stops at MaxEvents    *)
(* events per build.                                                       *)
(***************************************************************************)
Commit(d, R, realized) ==
  /\ Len(R.events) <= MaxEvents
  /\ Len(R.eventsC) <= MaxEvents
  /\ doc' = d
  /\ hook' = R.hook
  /\ events' = R.events
  /\ pane' = R.pane
  /\ eventsC' = R.eventsC
  /\ outstanding' = R.outstanding
  /\ inflight' = inflight \cup ((Len(events) + 1)..Len(R.events))
  /\ panelSkip' = (panelSkip \/ d # doc)
  /\ last' = [changed |-> d # doc, realized |-> realized,
              logged |-> Len(R.events) - Len(events),
              loggedC |-> Len(R.eventsC) - Len(eventsC),
              updates |-> R.updates]

NonBlank(t) == IF Trim(t) # <<>> THEN 1 ELSE 0

CountOrigin(d, origin) == Cardinality({i \in 1..Len(d) : d[i].origin = origin})

\* the selection: the offsets the cursor is put at
Cursor(d) == {Len(d)}

\* setCitationModal({ isOpen: false, pastedText: '', insertPosition: undefined })
ClosedModal == [isOpen |-> FALSE, pastedText |-> <<>>, insertPosition |-> -1, paste |-> 0]

\* the clipboard texts and citation inputs the user supplies
LongPaste == <<"q", "u", "o", "t", "e", "d", " ", "t", "e", "x", "t">>
ShortPastes == {<<"h", "i">>, <<" ">>}
CitationInputs == {<<" ">>, <<" ", "b", "k">>, <<"f", "t", "p", ":", "/", "/", "e">>}
SelectedModel == <<"g", "p", "t", "-", "3", ".", "5", "-", "t", "u", "r", "b", "o">>

(***************************************************************************)
(* Signing, export and verification: the commands sign_document and        *)
(* export_signed_document of src-tauri/src/main.rs, handleExport of App    *)
(* and the verifier src-tauri/src/bin/verify.rs.                           *)
(*                                                                         *)
(* A text is a sequence of tokens.  A token is one character or a run of   *)
(* characters that no operation of the program splits (a tag, a key name,  *)
(* a number, an indentation step).  A manifest is reduced to two of its    *)
(* fields: total_characters and the source of its event.                   *)
(***************************************************************************)
MaxKeys == 2
MaxChars == 1

ScriptOpen == "<script type=\"application/json\" id=\"sonnun-manifest\">"
ScriptClose == "</script>"

\* the sources a citation can put in an event
Sources == {<<"b", "k">>, <<"\"">>, <<ScriptClose>>}

\* the percentages a manifest can state, and the numbers of its JSON
Percentages == {0, 100}
Numbers == (0..MaxChars) \cup Percentages

\* the event lists a manifest can embed: event_type and span_length of each
EventLists ==
  {<<>>} \cup {<<[event_type |-> ty, span_length |-> 1]>> : ty \in {"human", "ai"}}

\* ManifestData, with the source of its events
ManifestData ==
  [human_percentage : Percentages, total_characters : 0..MaxChars,
   events : EventLists, source : Sources]

\* the manifests of documents without events whose text is the user's own
Manifests == {m \in ManifestData : m.human_percentage = 100 /\ m.events = <<>>}

\* the manifests of a document of one character and one source, with every
\* statement about its events
Statements == {m \in ManifestData : m.source = <<"b", "k">> /\ m.total_characters = 1}

\* str::find: the 1-based index of the first occurrence, 0 for None
Find(text, tok) ==
  IF \E i \in 1..Len(text) : text[i] = tok
  THEN CHOOSE i \in 1..Len(text) : text[i] = tok /\ \A j \in 1..(i - 1) : text[j] # tok
  ELSE 0

JsonWhitespace == {" ", "  ", "\n"}

RECURSIVE TrimWsStart(_)
TrimWsStart(t) ==
  IF t # <<>> /\ Head(t) \in JsonWhitespace THEN TrimWsStart(Tail(t)) ELSE t

\* str::trim
TrimWs(t) ==
  LET RECURSIVE TrimWsEnd(_)
      TrimWsEnd(u) ==
        IF u # <<>> /\ u[Len(u)] \in JsonWhitespace
        THEN TrimWsEnd(SubSeq(u, 1, Len(u) - 1)) ELSE u
  IN TrimWsEnd(TrimWsStart(t))

\* a JSON string as serde_json and JSON.stringify write it: quote and
\* backslash are escaped, '<' and '/' are not
RECURSIVE Escape(_)
Escape(str) ==
  IF str = <<>> THEN <<>>
  ELSE (IF Head(str) \in {"\"", "\\"} THEN <<"\\", Head(str)>> ELSE <<Head(str)>>)
       \o Escape(Tail(str))

JsonString(str) == <<"\"">> \o Escape(str) \o <<"\"">>

\* "\n" and the indentation of a pretty-printed line
RECURSIVE Indent(_)
Indent(depth) == IF depth = 0 THEN <<"\n">> ELSE Indent(depth - 1) \o <<"  ">>

\* one event, compact; event_type comes before span_length in the interface
\* ProvenanceEvent as well as in a sorted map
EventJson(e) ==
  <<"{">> \o JsonString(<<"event_type">>) \o <<":">> \o JsonString(<<e.event_type>>)
  \o <<",">> \o JsonString(<<"span_length">>) \o <<":", ToString(e.span_length), "}">>

\* an array of events, compact
EventsJson(es) ==
  LET RECURSIVE EventsJsonFrom(_)
      EventsJsonFrom(i) ==
        IF i > Len(es) THEN <<>>
        ELSE (IF i > 1 THEN <<",">> ELSE <<>>) \o EventJson(es[i]) \o EventsJsonFrom(i + 1)
  IN <<"[">> \o EventsJsonFrom(1) \o <<"]">>

\* one event, pretty-printed at a nesting depth
EventPretty(e, depth) ==
  <<"{">> \o Indent(depth + 1) \o JsonString(<<"event_type">>) \o <<":", " ">>
  \o JsonString(<<e.event_type>>)
  \o <<",">> \o Indent(depth + 1) \o JsonString(<<"span_length">>)
  \o <<":", " ", ToString(e.span_length)>> \o Indent(depth) \o <<"}">>

\* an array of events, pretty-printed; an empty array is written as []
EventsPretty(es, depth) ==
  LET RECURSIVE EventsPrettyFrom(_)
      EventsPrettyFrom(i) ==
        IF i > Len(es) THEN <<>>
        ELSE (IF i > 1 THEN <<",">> ELSE <<>>) \o Indent(depth + 1)
             \o EventPretty(es[i], depth + 1) \o EventsPrettyFrom(i + 1)
  IN IF es = <<>> THEN <<"[", "]">>
     ELSE <<"[">> \o EventsPrettyFrom(1) \o Indent(depth) \o <<"]">>

\* JSON.stringify(manifestData): the fields in the order of ManifestData
JSONstringify(m) ==
  <<"{">> \o JsonString(<<"human_percentage">>) \o <<":", ToString(m.human_percentage)>>
  \o <<",">> \o JsonString(<<"total_characters">>) \o <<":", ToString(m.total_characters)>>
  \o <<",">> \o JsonString(<<"events">>) \o <<":">> \o EventsJson(m.events)
  \o <<",">> \o JsonString(<<"source">>) \o <<":">> \o JsonString(m.source) \o <<"}">>

\* serde_json::to_string of a Value: the keys in the order of its map (sorted)
to_string(m) ==
  <<"{">> \o JsonString(<<"events">>) \o <<":">> \o EventsJson(m.events)
  \o <<",">> \o JsonString(<<"human_percentage">>) \o <<":", ToString(m.human_percentage)>>
  \o <<",">> \o JsonString(<<"source">>) \o <<":">> \o JsonString(m.source)
  \o <<",">> \o JsonString(<<"total_characters">>) \o <<":", ToString(m.total_characters)>>
  \o <<"}">>

\* serde_json::to_string_pretty of a Value at a nesting depth
to_string_pretty_value(m, depth) ==
  <<"{">> \o Indent(depth + 1) \o JsonString(<<"events">>) \o <<":", " ">>
  \o EventsPretty(m.events, depth + 1)
  \o <<",">> \o Indent(depth + 1) \o JsonString(<<"human_percentage">>)
  \o <<":", " ", ToString(m.human_percentage)>>
  \o <<",">> \o Indent(depth + 1) \o JsonString(<<"source">>) \o <<":", " ">>
  \o JsonString(m.source)
  \o <<",">> \o Indent(depth + 1) \o JsonString(<<"total_characters">>)
  \o <<":", " ", ToString(m.total_characters)>>
  \o Indent(depth) \o <<"}">>

\* serde_json::to_string_pretty(&signed_manifest): the fields of the struct in order
to_string_pretty(sm) ==
  <<"{">> \o Indent(1) \o JsonString(<<"manifest">>) \o <<":", " ">>
  \o to_string_pretty_value(sm.manifest, 1)
  \o <<",">> \o Indent(1) \o JsonString(<<"signature">>) \o <<":", " ">> \o JsonString(sm.signature)
  \o <<",">> \o Indent(1) \o JsonString(<<"public_key">>) \o <<":", " ">> \o JsonString(sm.public_key)
  \o <<",">> \o Indent(1) \o JsonString(<<"timestamp">>) \o <<":", " ">> \o JsonString(sm.timestamp)
  \o Indent(0) \o <<"}">>

\* the same value written without whitespace
to_string_signed(sm) ==
  <<"{">> \o JsonString(<<"manifest">>) \o <<":">> \o to_string(sm.manifest)
  \o <<",">> \o JsonString(<<"signature">>) \o <<":">> \o JsonString(sm.signature)
  \o <<",">> \o JsonString(<<"public_key">>) \o <<":">> \o JsonString(sm.public_key)
  \o <<",">> \o JsonString(<<"timestamp">>) \o <<":">> \o JsonString(sm.timestamp)
  \o <<"}">>

(***************************************************************************)
(* Keys and signatures.  Ed25519 signing is deterministic; a signature     *)
(* verifies under a public key exactly when it is the signature of that    *)
(* message by the matching secret key.  Base64 wraps bytes, decoding       *)
(* unwraps them and fails on anything else.                                *)
(***************************************************************************)
KeyIds == 1..MaxKeys

PublicKeyBytes(k) == ToString(<<"public", k>>)
SecretKeyBytes(k) == ToString(<<"secret", k>>)

encode(bytes) == <<"base64", bytes>>
Decodes(str) == Len(str) = 2 /\ str[1] = "base64"
decode(str) == str[2]

sign(secret, message) == ToString(<<"signature", secret, message>>)

verify(public, message, signature) ==
  \E k \in KeyIds : public = PublicKeyBytes(k) /\ signature = sign(SecretKeyBytes(k), message)

\* load_keypair: the two files of the keys directory
load_keypair(k) ==
  [public_key |-> encode(PublicKeyBytes(k)), private_key |-> encode(SecretKeyBytes(k))]

Timestamp == <<"2025-01-01T00:00:00+00:00">>

(***************************************************************************)
(* serde_json::from_str.  The text is cut into lexemes: a string (with its *)
(* escapes resolved), or any other token; whitespace outside strings is    *)
(* dropped.  A string that is not closed makes the text invalid.  Each      *)
(* intermediate result is bound once, as the element of a singleton set.   *)
(***************************************************************************)
RECURSIVE ReadString(_, _)
ReadString(t, acc) ==
  IF t = <<>> THEN [ok |-> FALSE, value |-> acc, rest |-> <<>>]
  ELSE IF Head(t) = "\"" THEN [ok |-> TRUE, value |-> acc, rest |-> Tail(t)]
  ELSE IF Head(t) = "\\"
       THEN IF Len(t) < 2 THEN [ok |-> FALSE, value |-> acc, rest |-> <<>>]
            ELSE ReadString(Tail(Tail(t)), Append(acc, t[2]))
  ELSE ReadString(Tail(t), Append(acc, Head(t)))

RECURSIVE Lex(_)
Lex(t) ==
  CHOOSE lexemes \in
    {IF u = <<>> THEN <<>>
     ELSE IF Head(u) = "\""
          THEN CHOOSE l \in {IF r.ok THEN <<<<"string">> \o r.value>> \o Lex(r.rest)
                             ELSE <<<<"unterminated">>>> :
                             r \in {ReadString(Tail(u), <<>>)}} : TRUE
     ELSE <<<<"token", Head(u)>>>> \o Lex(Tail(u)) : u \in {TrimWsStart(t)}} : TRUE

IsString(lexeme) == lexeme[1] = "string"
StringOf(lexeme) == Tail(lexeme)
Str(name) == <<"string", name>>
Tok(t) == <<"token", t>>
IsNumber(lexeme) == lexeme[1] = "token" /\ \E n \in Numbers : ToString(n) = lexeme[2]
NumberOf(lexeme) == CHOOSE n \in Numbers : ToString(n) = lexeme[2]

\* the lexeme at a position, or a mark past the end of the text
At(lex, i) == IF i \in 1..Len(lex) THEN lex[i] ELSE <<"end">>

Parsed(value, next) == [ok |-> TRUE, value |-> value, next |-> next]
NotParsed == [ok |-> FALSE, value |-> <<>>, next |-> 0]

\* one event object from position at
ParseEvent(lex, at) ==
  IF /\ At(lex, at) = Tok("{")
     /\ At(lex, at + 1) = Str("event_type") /\ At(lex, at + 2) = Tok(":")
     /\ IsString(At(lex, at + 3)) /\ Len(StringOf(At(lex, at + 3))) = 1
     /\ At(lex, at + 4) = Tok(",")
     /\ At(lex, at + 5) = Str("span_length") /\ At(lex, at + 6) = Tok(":")
     /\ IsNumber(At(lex, at + 7))
     /\ At(lex, at + 8) = Tok("}")
  THEN Parsed([event_type |-> StringOf(lex[at + 3])[1], span_length |-> NumberOf(lex[at + 7])],
              at + 9)
  ELSE NotParsed

\* the elements of an array from position at, up to its closing bracket
RECURSIVE ParseElements(_, _, _)
ParseElements(lex, at, acc) ==
  CHOOSE r \in
    {IF ~e.ok THEN NotParsed
     ELSE IF At(lex, e.next) = Tok("]") THEN Parsed(Append(acc, e.value), e.next + 1)
     ELSE IF At(lex, e.next) = Tok(",")
          THEN ParseElements(lex, e.next + 1, Append(acc, e.value))
     ELSE NotParsed : e \in {ParseEvent(lex, at)}} : TRUE

ParseArray(lex, at) ==
  IF At(lex, at) # Tok("[") THEN NotParsed
  ELSE IF At(lex, at + 1) = Tok("]") THEN Parsed(<<>>, at + 2)
  ELSE ParseElements(lex, at + 1, <<>>)

\* the value of a manifest field from position at
ParseField(lex, at, name) ==
  IF name = "events" THEN ParseArray(lex, at)
  ELSE IF name = "source"
       THEN IF IsString(At(lex, at)) THEN Parsed(StringOf(lex[at]), at + 1) ELSE NotParsed
  ELSE IF IsNumber(At(lex, at)) THEN Parsed(NumberOf(lex[at]), at + 1) ELSE NotParsed

\* the fields names[i..] of an object, at pointing to the key of names[i]
RECURSIVE ParseFields(_, _, _, _, _)
ParseFields(lex, at, names, i, acc) ==
  CHOOSE r \in
    {IF ~(At(lex, at) = Str(names[i]) /\ At(lex, at + 1) = Tok(":")) THEN NotParsed
     ELSE IF ~v.ok THEN NotParsed
     ELSE IF i = Len(names)
          THEN IF At(lex, v.next) = Tok("}")
               THEN Parsed(Append(acc, v.value), v.next + 1) ELSE NotParsed
     ELSE IF At(lex, v.next) = Tok(",")
          THEN ParseFields(lex, v.next + 1, names, i + 1, Append(acc, v.value))
     ELSE NotParsed : v \in {ParseField(lex, at + 2, names[i])}} : TRUE

\* the manifest object from position at, its keys in the order of names
ParseObject(lex, at, names) ==
  IF At(lex, at) = Tok("{") THEN ParseFields(lex, at + 1, names, 1, <<>>) ELSE NotParsed

\* the key order of JSON.stringify(manifestData) and of a sorted map
StringifyOrder == <<"human_percentage", "total_characters", "events", "source">>
SortedOrder == <<"events", "human_percentage", "source", "total_characters">>

\* a manifest object read into a serde_json Value, which keeps no order of
\* the keys: the object is accepted with its keys in either order
ParseValue(lex, at) ==
  CHOOSE r \in
    {IF s.ok
     THEN Parsed([events |-> s.value[1], human_percentage |-> s.value[2],
                  source |-> s.value[3], total_characters |-> s.value[4]], s.next)
     ELSE CHOOSE q \in
            {IF j.ok
             THEN Parsed([events |-> j.value[3], human_percentage |-> j.value[1],
                          source |-> j.value[4], total_characters |-> j.value[2]], j.next)
             ELSE NotParsed : j \in {ParseObject(lex, at, StringifyOrder)}} : TRUE :
       s \in {ParseObject(lex, at, SortedOrder)}} : TRUE

\* the manifest JSON handed to sign_document
ParsesManifest(text) ==
  \E lex \in {Lex(text)} :
    \E r \in {ParseObject(lex, 1, StringifyOrder)} : r.ok /\ r.next = Len(lex) + 1

from_str_manifest(text) ==
  CHOOSE m \in
    {[human_percentage |-> v[1], total_characters |-> v[2], events |-> v[3], source |-> v[4]] :
       v \in {ParseObject(Lex(text), 1, StringifyOrder).value}} : TRUE

\* a signer that returns the private key in the place of the public key
sign_document_private(k, manifest_json) ==
  LET keypair == load_keypair(k)
      manifest == from_str_manifest(manifest_json)
      signature == sign(decode(keypair.private_key), to_string(manifest))
  IN [manifest |-> manifest, signature |-> encode(signature),
      public_key |-> keypair.private_key, timestamp |-> Timestamp]

sign_document(k, manifest_json) ==
  LET keypair == load_keypair(k)
      manifest == from_str_manifest(manifest_json)
      canonical_manifest == to_string(manifest)
      signature == sign(decode(keypair.private_key), canonical_manifest)
  IN [manifest |-> manifest, signature |-> encode(signature),
      public_key |-> keypair.public_key, timestamp |-> Timestamp]

ContentHtml == "<p>Start writing your document...</p>"

\* the format! template of export_signed_document around an embedded block
Html(sm, block) ==
  <<"<!DOCTYPE html>", "<p><strong>Public Key:</strong> ">> \o sm.public_key
  \o <<"<p><strong>Signature:</strong> ">> \o sm.signature
  \o <<"<p><strong>Signed:</strong> ">> \o sm.timestamp
  \o <<"<div class=\"content\">", ContentHtml, "</div>">>
  \o <<ScriptOpen, "\n", "  ", "  ", "  ", "  ">> \o block
  \o <<"\n", "  ", "  ", ScriptClose, "</body>", "</html>">>

export_signed_document(signed_manifest) ==
  Html(signed_manifest, to_string_pretty(signed_manifest))

(***************************************************************************)
(* verify_document of sonnun-verify.                                       *)
(***************************************************************************)
\* the script block: a SignedManifest object whose manifest is an object
ParsesLex(lex) ==
  \E r \in {ParseValue(lex, 4)} :
  LET n == r.next
  IN /\ At(lex, 1) = Tok("{") /\ At(lex, 2) = Str("manifest") /\ At(lex, 3) = Tok(":")
     /\ r.ok
     /\ Len(lex) = n + 12
     /\ lex[n] = Tok(",")
     /\ lex[n + 1] = Str("signature") /\ lex[n + 2] = Tok(":") /\ IsString(lex[n + 3])
     /\ lex[n + 4] = Tok(",")
     /\ lex[n + 5] = Str("public_key") /\ lex[n + 6] = Tok(":") /\ IsString(lex[n + 7])
     /\ lex[n + 8] = Tok(",")
     /\ lex[n + 9] = Str("timestamp") /\ lex[n + 10] = Tok(":") /\ IsString(lex[n + 11])
     /\ lex[n + 12] = Tok("}")

FromLex(lex) ==
  CHOOSE sm \in
    {LET n == r.next
     IN [manifest |-> r.value,
         signature |-> StringOf(lex[n + 3]),
         public_key |-> StringOf(lex[n + 7]),
         timestamp |-> StringOf(lex[n + 11])] : r \in {ParseValue(lex, 4)}} : TRUE

Parses(text) == ParsesLex(Lex(text))

Ok(valid) == [ok |-> TRUE, valid |-> valid, error |-> ""]
Err(e) == [ok |-> FALSE, valid |-> FALSE, error |-> e]

NoKey == <<>>

KeyMismatch == Err("Provided public key does not match document key")

\* the errors of the stage that locates and decodes the embedded block
MalformedErrors ==
  {"No Sonnun manifest found in document", "Malformed manifest script tag",
   "Manifest script tag not closed", "Invalid manifest JSON", "No signature in manifest",
   "No public key in manifest", "Invalid public key encoding", "Invalid signature encoding",
   "Invalid public key", "Invalid signature"}

\* the text between the opening tag and the first closing tag after it
ManifestJson(content) ==
  LET manifest_start == Find(content, ScriptOpen)
      rest == SubSeq(content, manifest_start, Len(content))
      manifest_content_end == Find(rest, ScriptClose)
  IN TrimWs(SubSeq(rest, 2, manifest_content_end - 1))

\* a verifier that checks the supplied key only after the signature
verify_document_key_last(content, provided_key) ==
  LET lex == Lex(ManifestJson(content))
      signed_manifest == FromLex(lex)
      canonical_manifest == to_string(signed_manifest.manifest)
      valid == verify(decode(signed_manifest.public_key), canonical_manifest,
                      decode(signed_manifest.signature))
  IN IF Find(content, ScriptOpen) = 0 THEN Err("No Sonnun manifest found in document")
     ELSE IF Find(SubSeq(content, Find(content, ScriptOpen), Len(content)), ScriptClose) = 0
          THEN Err("Manifest script tag not closed")
     ELSE IF ~ParsesLex(lex) THEN Err("Invalid manifest JSON")
     ELSE IF ~Decodes(signed_manifest.public_key) THEN Err("Invalid public key encoding")
     ELSE IF ~Decodes(signed_manifest.signature) THEN Err("Invalid signature encoding")
     ELSE IF ~valid THEN Ok(FALSE)
     ELSE IF provided_key # NoKey /\ provided_key # signed_manifest.public_key
          THEN KeyMismatch
     ELSE Ok(TRUE)

\* a verifier that takes a decodable signature for a valid one
verify_document_any_signature(content, provided_key) ==
  LET lex == Lex(ManifestJson(content))
      signed_manifest == FromLex(lex)
  IN IF Find(content, ScriptOpen) = 0 THEN Err("No Sonnun manifest found in document")
     ELSE IF Find(SubSeq(content, Find(content, ScriptOpen), Len(content)), ScriptClose) = 0
          THEN Err("Manifest script tag not closed")
     ELSE IF ~ParsesLex(lex) THEN Err("Invalid manifest JSON")
     ELSE IF provided_key # NoKey /\ provided_key # signed_manifest.public_key
          THEN KeyMismatch
     ELSE IF ~Decodes(signed_manifest.public_key) THEN Err("Invalid public key encoding")
     ELSE Ok(Decodes(signed_manifest.signature))

verify_document(content, provided_key) ==
  IF Find(content, ScriptOpen) = 0 THEN Err("No Sonnun manifest found in document")
  ELSE IF Find(SubSeq(content, Find(content, ScriptOpen), Len(content)), ScriptClose) = 0
       THEN Err("Manifest script tag not closed")
  ELSE CHOOSE result \in
         {LET signed_manifest == FromLex(lex)
              manifest == signed_manifest.manifest
              signature_b64 == signed_manifest.signature
              public_key_b64 == signed_manifest.public_key
              canonical_manifest == to_string(manifest)
              valid == verify(decode(public_key_b64), canonical_manifest,
                              decode(signature_b64))
          IN IF ~ParsesLex(lex) THEN Err("Invalid manifest JSON")
             ELSE IF provided_key # NoKey /\ provided_key # public_key_b64 THEN KeyMismatch
             ELSE IF ~Decodes(public_key_b64) THEN Err("Invalid public key encoding")
             ELSE IF ~Decodes(signature_b64) THEN Err("Invalid signature encoding")
             ELSE Ok(valid) : lex \in {Lex(ManifestJson(content))}} : TRUE

NoFile == [exists |-> FALSE, text |-> <<>>, signedBy |-> 0,
           signed |-> <<>>, embedded |-> <<>>]
NoSignedManifest == <<>>
NotRun == [ran |-> FALSE, provided_key |-> NoKey, result |-> Err("")]

\* what handleExport tells the user, alert and console.error carrying the
\* same error; signed and wrote: whether sign_document returned a signed
\* manifest and whether export_signed_document wrote the file in this run
Alert(kind, message, signed, wrote) ==
  [kind |-> kind, message |-> message, signed |-> signed, wrote |-> wrote]

Filename == "signed_document_20250101_000000.html"

sessionVars == <<doc, hook, events, inflight, store, diagnostics, pane, eventsC, panelSkip,
                 citationModal, citation, messages, isLoading, requests, clock, cancelled,
                 outstanding, last>>

\* KeyManager: generate_keypair and save_keypair
generate_keypair(k) ==
  /\ keys' = k
  /\ UNCHANGED <<sessionVars, reportVars, signedManifest, file, verification, alerted>>

\* App.handleExport: sign the manifest, then export the signed document
\* an export that writes the artifact with an empty signature when
\* sign_document fails
handleExportUnsigned(manifestData) ==
  /\ IF keys = 0
     THEN /\ file' = [exists |-> TRUE,
                      text |-> Html([manifest |-> manifestData, signature |-> <<>>,
                                     public_key |-> <<>>, timestamp |-> Timestamp], <<>>),
                      signedBy |-> 0, signed |-> <<>>, embedded |-> to_string(manifestData)]
          /\ alerted' = Alert("exported", <<"Document exported as: ", Filename>>, FALSE, TRUE)
          /\ UNCHANGED <<signedManifest, verification>>
     ELSE LET signed == sign_document(keys, JSONstringify(manifestData))
          IN /\ signedManifest' = signed
             /\ file' = [exists |-> TRUE, text |-> export_signed_document(signed),
                         signedBy |-> keys, signed |-> to_string(manifestData),
                         embedded |-> to_string(manifestData)]
             /\ verification' = NotRun
             /\ alerted' = Alert("exported", <<"Document exported as: ", Filename>>, TRUE, TRUE)
  /\ UNCHANGED <<sessionVars, reportVars, keys>>

\* the error sign_document returns (the first that applies), none if it signs
SignError(k, manifest_json) ==
  IF k = 0 THEN <<"Public key not found">>
  ELSE IF ~ParsesManifest(manifest_json) THEN <<"Invalid manifest JSON">>
  ELSE <<>>

handleExport(manifestData) ==
  /\ IF SignError(keys, JSONstringify(manifestData)) # <<>>
     THEN /\ alerted' = Alert("failed", <<"Export failed: ">>
                                          \o SignError(keys, JSONstringify(manifestData)),
                              FALSE, FALSE)
          /\ UNCHANGED <<signedManifest, file, verification>>
     ELSE LET signed == sign_document(keys, JSONstringify(manifestData))
          IN /\ signedManifest' = signed
             /\ file' = [exists |-> TRUE, text |-> export_signed_document(signed),
                         signedBy |-> keys, signed |-> to_string(manifestData),
                         embedded |-> to_string(manifestData)]
             /\ verification' = NotRun
             /\ alerted' = Alert("exported", <<"Document exported as: ", Filename>>, TRUE, TRUE)
  /\ UNCHANGED <<sessionVars, reportVars, keys>>

\* somebody rewrites the embedded manifest of the file, with or without
\* whitespace, and leaves signature and public key as they were
Tamper(m, pretty) ==
  /\ file.exists
  /\ LET sm == [signedManifest EXCEPT !.manifest = m]
     IN file' = [file EXCEPT
                   !.text = Html(sm, IF pretty THEN to_string_pretty(sm)
                                     ELSE to_string_signed(sm)),
                   !.embedded = to_string(m)]
  /\ verification' = NotRun
  /\ UNCHANGED <<sessionVars, reportVars, keys, signedManifest, alerted>>

\* somebody writes the embedded block of the file anew with another
\* serializer: the same values, the keys of the manifest in the order of
\* ManifestData, no indentation, and a line break in front or not
Reserialize(spaced) ==
  /\ file.exists
  /\ LET sm == signedManifest
         block ==
           <<"{">> \o JsonString(<<"manifest">>) \o <<":">> \o JSONstringify(sm.manifest)
           \o <<",">> \o JsonString(<<"signature">>) \o <<":">> \o JsonString(sm.signature)
           \o <<",">> \o JsonString(<<"public_key">>) \o <<":">> \o JsonString(sm.public_key)
           \o <<",">> \o JsonString(<<"timestamp">>) \o <<":">> \o JsonString(sm.timestamp)
           \o <<"}">>
     IN file' = [file EXCEPT
                   !.text = Html(sm, (IF spaced THEN <<"\n", " ">> ELSE <<>>) \o block),
                   !.embedded = to_string(sm.manifest)]
  /\ verification' = NotRun
  /\ UNCHANGED <<sessionVars, reportVars, keys, signedManifest, alerted>>

\* sonnun-verify file [-k KEY]
RunVerify(provided_key) ==
  /\ file.exists
  /\ verification' = [ran |-> TRUE, provided_key |-> provided_key,
                      result |-> verify_document(file.text, provided_key)]
  /\ UNCHANGED <<sessionVars, reportVars, keys, signedManifest, file, alerted>>

(***************************************************************************)
(* The classifier.  calculateProvenanceStats reads the editor document,    *)
(* calculateProvenanceFromText the HTML the editor renders.  A percentage   *)
(* is kept as the exact fraction num / den.                                 *)
(***************************************************************************)
MaxDoc == 2

\* the type attribute of the provenanceMark of a character, "none" without the mark
MarkTypes == {"none", "human", "ai", "cited", "other"}
Hrefs == {<<>>, <<"u">>}

\* the documents handed to the classifier
Documents ==
  UNION {[1..n -> {[Plain("x", "input") EXCEPT !.type = ty, !.link = href] :
                     ty \in MarkTypes, href \in Hrefs}] : n \in 0..MaxDoc}

\* node.marks of a text node: the link mark ranks before the provenance mark
marks(c) ==
  (IF c.link # <<>> THEN <<[name |-> "link", type |-> ""]>> ELSE <<>>)
  \o (IF c.type # "none" THEN <<[name |-> "provenanceMark", type |-> c.type]>> ELSE <<>>)

\* the text nodes of a paragraph: maximal runs of characters with the same marks
RECURSIVE TextNodes(_)
TextNodes(d) ==
  IF d = <<>> THEN <<>>
  ELSE LET rest == TextNodes(Tail(d))
       IN IF rest # <<>> /\ rest[1].marks = marks(Head(d))
          THEN <<[rest[1] EXCEPT !.textContent = <<Head(d).ch>> \o @]>> \o Tail(rest)
          ELSE <<[isText |-> TRUE, marks |-> marks(Head(d)), textContent |-> <<Head(d).ch>>]>>
               \o rest

\* doc.descendants: the paragraph, then its text nodes
descendants(d) ==
  <<[isText |-> FALSE, marks |-> <<>>, textContent |-> getText(d)]>> \o TextNodes(d)

\* the condition of an if on an array: every array is truthy, the empty one too
ToBoolean(array) == Len(array) >= 0

NoChars == [human |-> 0, ai |-> 0, cited |-> 0]

\* the switch on a type: the characters go to that category, or to none
CharsOf(type, n) ==
  IF type \in {"human", "ai", "cited"} THEN [NoChars EXCEPT ![type] = n] ELSE NoChars

Plus(a, b) == [human |-> a.human + b.human, ai |-> a.ai + b.ai, cited |-> a.cited + b.cited]

\* node.marks.forEach
RECURSIVE forEachMark(_, _)
forEachMark(ms, text) ==
  IF ms = <<>> THEN NoChars
  ELSE Plus(IF Head(ms).name = "provenanceMark" THEN CharsOf(Head(ms).type, Len(text))
            ELSE NoChars,
            forEachMark(Tail(ms), text))

\* the callback of doc.descendants
visit(node) ==
  IF ToBoolean(node.marks) THEN forEachMark(node.marks, node.textContent)
  ELSE IF node.isText THEN CharsOf("human", Len(node.textContent))
  ELSE NoChars

RECURSIVE visitAll(_)
visitAll(nodes) == IF nodes = <<>> THEN NoChars ELSE Plus(visit(Head(nodes)), visitAll(Tail(nodes)))

\* total > 0 ? (chars / total) * 100 : otherwise
Percentage(chars, total, otherwise) ==
  IF total > 0 THEN [num |-> chars * 100, den |-> total] ELSE [num |-> otherwise, den |-> 1]

calculateProvenanceStats(d) ==
  LET chars == visitAll(descendants(d))
      total == chars.human + chars.ai + chars.cited
  IN [humanPercentage |-> Percentage(chars.human, total, 0),
      aiPercentage |-> Percentage(chars.ai, total, 0),
      citedPercentage |-> Percentage(chars.cited, total, 0),
      totalCharacters |-> total]

(***************************************************************************)
(* HTML is a sequence of tags and characters.                              *)
(***************************************************************************)
Open(tag, provenance, type) ==
  [kind |-> "open", tag |-> tag, provenance |-> provenance, type |-> type, ch |-> ""]
Close(tag) == [kind |-> "close", tag |-> tag, provenance |-> FALSE, type |-> "", ch |-> ""]
Char(c) == [kind |-> "text", tag |-> "", provenance |-> FALSE, type |-> "", ch |-> c]

\* renderHTML of a mark
renderMark(m) ==
  IF m.name = "provenanceMark" THEN Open("span", TRUE, m.type) ELSE Open("a", FALSE, "")

\* the text nodes as HTML: the marks of a node open in their order and
\* close in the reverse order
RECURSIVE renderNodes(_)
renderNodes(nodes) ==
  LET RECURSIVE OpenTags(_)
      OpenTags(ms) ==
        IF ms = <<>> THEN <<>> ELSE <<renderMark(Head(ms))>> \o OpenTags(Tail(ms))
      RECURSIVE CloseTags(_)
      CloseTags(ms) ==
        IF ms = <<>> THEN <<>>
        ELSE CloseTags(Tail(ms)) \o <<Close(renderMark(Head(ms)).tag)>>
  IN IF nodes = <<>> THEN <<>>
     ELSE OpenTags(Head(nodes).marks)
          \o [i \in 1..Len(Head(nodes).textContent) |-> Char(Head(nodes).textContent[i])]
          \o CloseTags(Head(nodes).marks)
          \o renderNodes(Tail(nodes))

\* editor.getHTML()
getHTML(d) == <<Open("p", FALSE, "")>> \o renderNodes(TextNodes(d)) \o <<Close("p")>>

\* HTML the editor does not render: text outside a paragraph, and marked
\* spans inside marked spans
Span(type, inner) == <<Open("span", TRUE, type)>> \o inner \o <<Close("span")>>

OtherContents ==
  {<<>>, <<Char("x")>>}
  \cup {<<Open("p", FALSE, "")>> \o Span(outer, <<Char("x")>> \o Span(inner, <<Char("y")>>))
        \o <<Close("p")>> : outer \in {"human", "ai"}, inner \in {"ai", "cited"}}

Contents == {getHTML(d) : d \in Documents} \cup OtherContents

\* the text of the content: document.body.textContent
textContent(content) ==
  LET texts == SelectSeq(content, LAMBDA t : t.kind = "text")
  IN [i \in 1..Len(texts) |-> texts[i].ch]

\* the elements of a stack of open elements that carry data-provenance
RECURSIVE ElementChars(_)
ElementChars(open) ==
  IF open = <<>> THEN NoChars
  ELSE Plus(IF Head(open).provenance THEN CharsOf(Head(open).type, 1) ELSE NoChars,
            ElementChars(Tail(open)))

\* the walk of the tree in document order, one token of the content at a
\* time; open holds the elements around the token, innermost last.  An
\* element with data-provenance adds the length of its textContent to the
\* category of its data-type, that is one for each character inside it; a
\* text node adds its length to human unless its parent has data-provenance.
RECURSIVE walk(_, _)
walk(content, open) ==
  IF content = <<>> THEN NoChars
  ELSE LET node == Head(content)
       IN IF node.kind = "open" THEN walk(Tail(content), Append(open, node))
          ELSE IF node.kind = "close"
               THEN walk(Tail(content), SubSeq(open, 1, Len(open) - 1))
          ELSE Plus(Plus(ElementChars(open),
                         IF open # <<>> /\ open[Len(open)].provenance THEN NoChars
                         ELSE CharsOf("human", 1)),
                    walk(Tail(content), open))

calculateProvenanceFromText(content) ==
  LET chars == walk(content, <<>>)
      total == chars.human + chars.ai + chars.cited
  IN [humanPercentage |-> Percentage(chars.human, total, 100),
      aiPercentage |-> Percentage(chars.ai, total, 0),
      citedPercentage |-> Percentage(chars.cited, total, 0),
      totalCharacters |-> total]

NotClassified == [by |-> "none", doc |-> <<>>, content |-> <<>>, text |-> <<>>,
                  stats |-> calculateProvenanceFromText(<<>>)]

\* onProvenanceChange(calculateProvenanceStats(editor)) for a document
classifyDocument(d) ==
  /\ classified' = [by |-> "calculateProvenanceStats", doc |-> d, content |-> getHTML(d),
                    text |-> getText(d), stats |-> calculateProvenanceStats(d)]
  /\ UNCHANGED <<sessionVars, exportVars, generated, diffed, hashed, validated>>

\* calculateProvenanceFromText(content) for an HTML content
classifyContent(content) ==
  /\ classified' = [by |-> "calculateProvenanceFromText", doc |-> <<>>, content |-> content,
                    text |-> textContent(content),
                    stats |-> calculateProvenanceFromText(content)]
  /\ UNCHANGED <<sessionVars, exportVars, generated, diffed, hashed, validated>>

(***************************************************************************)
(* generateCompleteManifest.                                               *)
(***************************************************************************)
MaxSorted == 3

\* timestamps, and the instant new Date(timestamp).getTime() gives for each
Timestamps == {"2023-01-01T01:00:00Z", "2023-01-01T02:00:00Z", "2023-01-01T03:00:00+02:00"}

\* new Date(ms).toISOString(), for the milliseconds 0..9 after the epoch
toISOString(ms) == "1970-01-01T00:00:00.00" \o ToString(ms) \o "Z"

getTime(timestamp) ==
  IF timestamp = "2023-01-01T02:00:00Z" THEN 1672538400
  ELSE IF \E ms \in 0..9 : timestamp = toISOString(ms)
       THEN CHOOSE ms \in 0..9 : timestamp = toISOString(ms)
  ELSE 1672534800

\* the events of an events array
LoggedEvents ==
  [timestamp : Timestamps, event_type : {"human"}, text_hash : {"hash1", "hash2"},
   source : {User}, span_length : {1}]

\* the comparator handed to events.sort
compare(a, b) == getTime(a.timestamp) - getTime(b.timestamp)

\* Array.prototype.sort is stable: an element goes behind every element
\* that does not compare greater than it
RECURSIVE insert(_, _)
insert(sorted, e) ==
  IF sorted = <<>> THEN <<e>>
  ELSE IF compare(Head(sorted), e) > 0 THEN <<e>> \o sorted
  ELSE <<Head(sorted)>> \o insert(Tail(sorted), e)

\* an array whose elements are left where they are
sortKeepsOrder(array) == array

sort(array) ==
  LET RECURSIVE sortFrom(_, _)
      sortFrom(i, sorted) ==
        IF i > Len(array) THEN sorted ELSE sortFrom(i + 1, insert(sorted, array[i]))
  IN sortFrom(1, <<>>)

\* the string of a content: text, and the tags as editor.getHTML writes
\* them (elements without attributes)
RECURSIVE outerHTML(_)
outerHTML(content) ==
  IF content = <<>> THEN ""
  ELSE (IF Head(content).kind = "text" THEN Head(content).ch
        ELSE IF Head(content).kind = "open" THEN "<" \o Head(content).tag \o ">"
        ELSE "</" \o Head(content).tag \o ">")
       \o outerHTML(Tail(content))

\* crypto.subtle.digest('SHA-256', data): the 32 bytes of the digest, for
\* the strings whose digest the model needs
digest(data) ==
  CASE data = "" ->
         <<227, 176, 196, 66, 152, 252, 28, 20, 154, 251, 244, 200, 153, 111, 185, 36,
           39, 174, 65, 228, 100, 155, 147, 76, 164, 149, 153, 27, 120, 82, 184, 85>>
    [] data = "x" ->
         <<45, 113, 22, 66, 183, 38, 176, 68, 1, 98, 124, 169, 251, 172, 50, 245,
           200, 83, 15, 177, 144, 60, 196, 219, 2, 37, 135, 23, 146, 26, 72, 129>>
    [] data = "<p></p>" ->
         <<254, 4, 169, 220, 136, 211, 243, 190, 141, 79, 107, 198, 58, 154, 128, 244,
           90, 76, 109, 132, 96, 231, 85, 29, 171, 132, 148, 87, 192, 145, 146, 10>>
    [] data = "<p>x</p>" ->
         <<49, 216, 224, 126, 195, 5, 172, 78, 37, 21, 209, 240, 177, 200, 198, 3,
           179, 133, 128, 68, 235, 125, 151, 128, 125, 109, 9, 112, 131, 140, 176, 190>>
    [] data = "<p>x</p>\n" ->
         <<78, 41, 21, 15, 75, 99, 117, 17, 188, 123, 12, 179, 191, 98, 109, 99,
           206, 101, 168, 158, 4, 95, 51, 255, 57, 189, 156, 230, 135, 55, 116, 30>>

HexDigits == <<"0", "1", "2", "3", "4", "5", "6", "7", "8", "9", "a", "b", "c", "d", "e", "f">>

\* b.toString(16) without padding
toString16Unpadded(b) ==
  IF b < 16 THEN <<HexDigits[b + 1]>>
  ELSE <<HexDigits[(b \div 16) + 1], HexDigits[(b % 16) + 1]>>

\* b.toString(16).padStart(2, '0')
toString16(b) ==
  IF b < 16 THEN <<"0", HexDigits[b + 1]>>
  ELSE <<HexDigits[(b \div 16) + 1], HexDigits[(b % 16) + 1]>>

\* hashArray.map(...).join('')
RECURSIVE join(_)
join(hashArray) ==
  IF hashArray = <<>> THEN <<>> ELSE toString16(Head(hashArray)) \o join(Tail(hashArray))

\* SHA-256 of the UTF-8 bytes of the content, as a hexadecimal string
hashContent(content) == join(digest(outerHTML(content)))

MaxHashed == 3

\* the contents handed to hashContent: no text, text outside and inside a
\* paragraph, a paragraph followed by a line break, an empty paragraph
HashedContents ==
  {<<>>, <<Char("x")>>, <<Open("p", FALSE, ""), Close("p")>>,
   <<Open("p", FALSE, ""), Char("x"), Close("p")>>,
   <<Open("p", FALSE, ""), Char("x"), Close("p"), Char("\n")>>}

\* await hashContent(content)
callHashContent(content) ==
  /\ Len(hashed) < MaxHashed
  /\ hashed' = Append(hashed, [content |-> content, hash |-> hashContent(content)])
  /\ UNCHANGED <<sessionVars, exportVars, classified, generated, diffed, validated>>

\* events: the caller's array; after a call it is also the events of the
\* manifest, events.sort returning the array it was called on.  input and
\* returned: the array when the function was called and when it returned.
NotGenerated == [ran |-> FALSE, content |-> <<>>, input |-> <<>>, events |-> <<>>,
                 returned |-> <<>>, manifest |-> <<>>]

\* the caller appends an event to its array
push(e) ==
  /\ Len(generated.events) < MaxSorted
  /\ generated' = [generated EXCEPT !.events = Append(@, e)]
  /\ UNCHANGED <<sessionVars, exportVars, classified, diffed, hashed, validated>>

\* generateCompleteManifest(content, events), array being the events
\* argument; events.sort sorts the caller's
\* array in place and returns it
generateCompleteManifest(content, array) ==
  /\ LET stats == calculateProvenanceFromText(content)
         documentHash == hashContent(content)
     IN generated' =
          [ran |-> TRUE, content |-> content, input |-> array, events |-> sort(array),
           returned |-> sort(array),
           manifest |-> [human_percentage |-> stats.humanPercentage,
                         ai_percentage |-> stats.aiPercentage,
                         cited_percentage |-> stats.citedPercentage,
                         total_characters |-> stats.totalCharacters,
                         generated_at |-> clock,
                         document_hash |-> documentHash]]
  /\ UNCHANGED <<sessionVars, exportVars, classified, diffed, hashed, validated>>

(***************************************************************************)
(* validateProvenanceEvent.  A value of JavaScript is a record of its      *)
(* typeof, its string (for a string), its number (for a number) and        *)
(* whether the number is NaN; a field that is missing holds undefined.     *)
(***************************************************************************)
\* the values of Partial<ProvenanceEvent>: each field missing or of its
\* declared type
PartialEvents ==
  LET undefined == [typeof |-> "undefined", string |-> "", number |-> 0, nan |-> FALSE]
      String(str) == [typeof |-> "string", string |-> str, number |-> 0, nan |-> FALSE]
      Number(n) == [typeof |-> "number", string |-> "", number |-> n, nan |-> FALSE]
      NaN == [typeof |-> "number", string |-> "", number |-> 0, nan |-> TRUE]
  IN [timestamp : {undefined, String(""), String("2023-01-01T00:00:00Z")},
      event_type : {undefined} \cup {String(t) : t \in {"", "human", "ai", "cited", "other"}},
      source : {undefined, String(""), String("user")},
      span_length : {undefined, NaN} \cup {Number(n) : n \in -1..1}]

validateProvenanceEvent(event) ==
  LET \* !value: undefined, '', 0 and NaN are falsy
      Not(value) ==
        \/ value.typeof = "undefined"
        \/ value.typeof = "string" /\ value.string = ""
        \/ value.typeof = "number" /\ (value.nan \/ value.number = 0)
      \* ['human', 'ai', 'cited'].includes(value)
      includes(value) == value.typeof = "string" /\ value.string \in {"human", "ai", "cited"}
      \* value < 0: false for NaN
      Negative(value) == value.typeof = "number" /\ ~value.nan /\ value.number < 0
  IN (IF Not(event.timestamp) THEN <<"Timestamp is required">> ELSE <<>>)
     \o (IF Not(event.event_type) \/ ~includes(event.event_type)
         THEN <<"Event type must be human, ai, or cited">> ELSE <<>>)
     \o (IF Not(event.source) THEN <<"Source is required">> ELSE <<>>)
     \o (IF event.span_length.typeof # "number" \/ Negative(event.span_length)
         THEN <<"Span length must be a non-negative number">> ELSE <<>>)

NotValidated == [ran |-> FALSE, event |-> <<>>, after |-> <<>>, errors |-> <<>>]

\* a call of validateProvenanceEvent(event): the function reads the event
\* and assigns to no field of it
callValidateProvenanceEvent(event) ==
  /\ validated' = [ran |-> TRUE, event |-> event, after |-> event,
                   errors |-> validateProvenanceEvent(event)]
  /\ UNCHANGED <<sessionVars, exportVars, classified, generated, diffed, hashed>>

(***************************************************************************)
(* The update handlers of both builds on an editor whose text is replaced  *)
(* by newText while no skip is pending; lastContentRef holds the text of    *)
(* the update before.                                                       *)
(***************************************************************************)
MaxText == 3

Letters == {"a", "b", " "}

Texts == UNION {[1..n -> Letters] : n \in 0..MaxText}

NotDiffed == [ran |-> FALSE, oldText |-> <<>>, newText |-> <<>>, insertedText |-> <<>>,
              events |-> <<>>, eventsC |-> <<>>, lastContentRef |-> <<>>]

update(newText) ==
  /\ LET oldText == diffed.lastContentRef
         f == handleEditorUpdate([skipNextUpdateRef |-> FALSE, lastContentRef |-> oldText],
                                 <<>>, newText, clock, "input")
         c == handleEditorUpdateCounter([skipUpdateCountRef |-> 0, lastContentRef |-> oldText],
                                        <<>>, newText, clock, "input")
     IN diffed' = [ran |-> TRUE, oldText |-> oldText, newText |-> newText,
                   insertedText |-> findInsertedText(oldText, newText),
                   events |-> f.events, eventsC |-> c.events,
                   lastContentRef |-> f.hook.lastContentRef]
  /\ UNCHANGED <<sessionVars, exportVars, classified, generated, hashed, validated>>

(***************************************************************************)
(* Init: the editor is mounted with its initial content, the effect of     *)
(* useProvenanceTracking / EditorPane has run (lastContentRef set to       *)
(* editor.getText(), handler registered, onReady called).                  *)
(***************************************************************************)
Init ==
  /\ doc = PlainText(InitialContent, "init")
  /\ hook = [skipNextUpdateRef |-> FALSE, lastContentRef |-> InitialContent]
  /\ events = <<>>
  /\ inflight = {}
  /\ store = <<>>
  /\ diagnostics = {}
  /\ pane = [skipUpdateCountRef |-> 0, lastContentRef |-> InitialContent]
  /\ eventsC = <<>>
  /\ panelSkip = FALSE
  /\ citationModal = ClosedModal
  /\ citation = <<>>
  /\ messages = <<>>
  /\ isLoading = FALSE
  /\ requests = 0
  /\ clock = 0
  /\ cancelled = {}
  /\ outstanding = 0
  /\ last = [changed |-> FALSE, realized |-> 0, logged |-> 0, loggedC |-> 0, updates |-> <<>>]
  /\ keys = 0
  /\ signedManifest = NoSignedManifest
  /\ file = NoFile
  /\ verification = NotRun
  /\ alerted = Alert("none", <<>>, FALSE, FALSE)
  /\ classified = NotClassified
  /\ generated = NotGenerated
  /\ diffed = NotDiffed
  /\ hashed = <<>>
  /\ validated = NotValidated

(***************************************************************************)
(* The user types one character at offset p.                               *)
(***************************************************************************)
HumanType(c, p) ==
  /\ CountOrigin(doc, "human") < MaxTyped
  /\ LET d == InsertAt(doc, p, <<Plain(c, "human")>>)
         R == EmitUpdate(Tracking, getText(d), clock,
                         IF c \in Whitespace THEN "blank" ELSE "human")
     IN Commit(d, R, NonBlank(<<c>>))
  /\ UNCHANGED <<store, diagnostics, clock, panelVars, modalVars>>
  /\ UNCHANGED <<exportVars, reportVars>>

(***************************************************************************)
(* The user deletes the last character, one typed earlier.                 *)
(***************************************************************************)
HumanDelete ==
  /\ Len(doc) > 0
  /\ doc[Len(doc)].origin = "human"
  /\ LET d == SubSeq(doc, 1, Len(doc) - 1)
         R == EmitUpdate(Tracking, getText(d), clock, "delete")
     IN Commit(d, R, 0)
  /\ UNCHANGED <<store, diagnostics, clock, panelVars, modalVars>>
  /\ UNCHANGED <<exportVars, reportVars>>

(***************************************************************************)
(* handlePaste of the pasteHandler plugin (the same in both builds): a     *)
(* paste of more than 10 characters is intercepted and opens the citation  *)
(* dialog; a shorter one is logged as human and left to the default paste, *)
(* which inserts it (applied) unless another handler prevents it.          *)
(***************************************************************************)
PasteThreshold == 10

UsedPastes ==
  {doc[i].paste : i \in 1..Len(doc)} \cup cancelled \cup {citationModal.paste}

handlePaste(text, p, applied) ==
  /\ text # <<>>
  /\ IF Len(text) > PasteThreshold
     THEN /\ \E id \in 1..MaxPastes : id \notin UsedPastes
          /\ citationModal' =
               [isOpen |-> TRUE, pastedText |-> text, insertPosition |-> p,
                paste |-> CHOOSE id \in 1..MaxPastes : id \notin UsedPastes]
          /\ UNCHANGED editorVars
     ELSE /\ LET S == [Tracking EXCEPT
                        !.events = logProvenanceEvent(events, "human", text, User,
                                                      Len(text), clock, "paste"),
                        !.eventsC = logProvenanceEvent(eventsC, "human", text, User,
                                                       Len(text), clock, "paste")]
                 d == InsertAt(doc, p, PlainText(text, "paste"))
             IN IF applied
                THEN Commit(d, EmitUpdate(S, getText(d), clock, "paste"), NonBlank(text))
                ELSE Commit(doc, S, 0)
          /\ UNCHANGED citationModal
  /\ UNCHANGED <<store, diagnostics, clock, panelVars, citation, cancelled>>
  /\ UNCHANGED <<exportVars, reportVars>>

\* onChange of the citation input
setCitation(v) ==
  /\ citationModal.isOpen
  /\ citation # v
  /\ citation' = v
  /\ UNCHANGED <<editorVars, store, diagnostics, clock, panelVars, citationModal, cancelled>>
  /\ UNCHANGED <<exportVars, reportVars>>

(***************************************************************************)
(* handleCitationConfirm (useCitationHandler; the counter build's copy     *)
(* differs only in how it requests the skip).                              *)
(***************************************************************************)
StartsWith(s, pre) == Len(s) >= Len(pre) /\ SubSeq(s, 1, Len(pre)) = pre

Schemes == {<<"f", "t", "p">>, <<"h", "t", "t", "p">>, <<"h", "t", "t", "p", "s">>}

\* /^(ftp|http|https):\/\/[^ "]+$/
isURL(s) ==
  \E sch \in Schemes :
    LET pre == sch \o <<":", "/", "/">>
    IN /\ StartsWith(s, pre)
       /\ Len(s) > Len(pre)
       /\ \A i \in (Len(pre) + 1)..Len(s) : s[i] \notin {" ", "\""}

\* ` (source: ${citation})`
SourceNote(c) == <<" ", "(", "s", "o", "u", "r", "c", "e", ":", " ">> \o c \o <<")">>

\* setTextSelection({from, to}).setLink({href}); the selection is clamped to the document
setLink(d, from, to, href) ==
  [i \in 1..Len(d) |-> IF i > from /\ i <= to THEN [d[i] EXCEPT !.link = href] ELSE d[i]]

\* a command that changed the document emits 'update'
RunCommand(S, dOld, dNew, now, cause) ==
  IF dNew # dOld THEN EmitUpdate(S, getText(dNew), now, cause) ELSE S

\* insertContentAt(position, value, options) with a string value: the options
\* the command reads are parseOptions, updateSelection, applyInputRules,
\* applyPasteRules and errorOnInvalidContent, so a 'marks' option is not read;
\* the string is inserted as text and takes the marks in effect at the position
\* (those of the character before it, or of the first character at offset 0;
\* provenanceMark and Link are inclusive).  options is the argument as passed.
insertContentAt(d, position, value, options, origin, paste) ==
  LET main == IF position >= 1 THEN position ELSE 1
  IN InsertAt(d, position,
              [i \in 1..Len(value) |->
                 IF d = <<>> THEN [Plain(value[i], origin) EXCEPT !.paste = paste]
                 ELSE [d[main] EXCEPT !.ch = value[i], !.origin = origin, !.paste = paste]])

handleCitationConfirm(cit, ok1) ==
  LET pastedText == citationModal.pastedText
      resolvedInsertPos == citationModal.insertPosition
      S0 == incSkipCount(setSkipFlag(Programmatic(Tracking)))
      d1 == IF ok1 /\ resolvedInsertPos <= Len(doc)
            THEN insertContentAt(doc, resolvedInsertPos, pastedText,
                                 [type |-> "cited", source |-> cit],
                                 "cited", citationModal.paste)
            ELSE doc
      S1 == RunCommand(S0, doc, d1, clock, "cited")
      insertedTextEndPos == resolvedInsertPos + Len(pastedText)
      d2 == IF isURL(cit) THEN setLink(d1, resolvedInsertPos, insertedTextEndPos, cit)
            ELSE IF insertedTextEndPos <= Len(d1)
                 THEN insertContentAt(d1, insertedTextEndPos, SourceNote(cit),
                                      [type |-> "none", source |-> <<>>], "note", 0)
            ELSE d1
      S2 == RunCommand(S1, d1, d2, clock, IF isURL(cit) THEN "link" ELSE "note")
      S3 == [S2 EXCEPT
               !.events = logProvenanceEvent(S2.events, "cited", pastedText, cit,
                                             Len(pastedText), clock, "cited"),
               !.eventsC = logProvenanceEvent(S2.eventsC, "cited", pastedText, cit,
                                              Len(pastedText), clock, "cited")]
  IN IF pastedText = <<>>
     THEN UNCHANGED <<editorVars, citationModal>>
     ELSE /\ Commit(d2, S3, IF d1 # doc THEN NonBlank(pastedText) ELSE 0)
          /\ citationModal' = ClosedModal

\* CitationModal.handleSubmit
handleSubmitCitation(ok1) ==
  /\ citationModal.isOpen
  /\ IF Trim(citation) # <<>>
     THEN /\ handleCitationConfirm(Trim(citation), ok1)
          /\ citation' = <<>>
     ELSE UNCHANGED <<editorVars, citationModal, citation>>
  /\ UNCHANGED <<store, diagnostics, clock, panelVars, cancelled>>
  /\ UNCHANGED <<exportVars, reportVars>>

\* a cancel that falls back to the default paste of the text
handleCitationCancelPastes ==
  /\ citationModal.isOpen
  /\ citationModal' = ClosedModal
  /\ cancelled' = cancelled \cup {citationModal.paste}
  /\ LET d == InsertAt(doc, Len(doc),
                       MarkedText(citationModal.pastedText, "none", <<>>, "paste",
                                  citationModal.paste))
     IN Commit(d, EmitUpdate(Tracking, getText(d), clock, "paste"), 1)
  /\ UNCHANGED <<store, diagnostics, clock, panelVars, citation>>
  /\ UNCHANGED <<exportVars, reportVars>>

\* handleCitationCancel, from the dialog's Cancel button
handleCitationCancel ==
  /\ citationModal.isOpen
  /\ citationModal' = ClosedModal
  /\ cancelled' = cancelled \cup {citationModal.paste}
  /\ UNCHANGED <<editorVars, store, diagnostics, clock, panelVars, citation>>
  /\ UNCHANGED <<exportVars, reportVars>>

(***************************************************************************)
(* AssistantPanel.                                                         *)
(***************************************************************************)
Prompts == {<<"q">>, <<" ">>}
Completions == {<<"A", "I">>, <<>>}
Models == {<<"g", "p", "t", "-", "4">>}
ProviderErrors == {<<"4", "0", "1">>}
ErrorPrefix == <<"E", "r", "r", "o", "r", ":", " ">>

\* handleSubmit up to the await of invoke('query_ai_assistant')
handleSubmit(inputValue) ==
  /\ IF Trim(inputValue) = <<>> \/ isLoading
     THEN UNCHANGED panelVars
     ELSE /\ Len(messages) + 2 <= MaxMessages
          /\ messages' = Append(messages, [role |-> "user", content |-> Trim(inputValue),
                                          model |-> <<>>, failed |-> FALSE])
          /\ isLoading' = TRUE
          /\ requests' = requests + 1
  /\ UNCHANGED <<editorVars, store, diagnostics, clock, modalVars>>
  /\ UNCHANGED <<exportVars, reportVars>>

\* a handleSubmit without the finally block: setIsLoading(false) only after an answer
queryResolvesNoFinally(ok, content, model, errorMessage) ==
  /\ requests > 0
  /\ messages' = Append(messages,
                   IF ok
                   THEN [role |-> "assistant", content |-> content, model |-> model,
                         failed |-> FALSE]
                   ELSE [role |-> "assistant", content |-> ErrorPrefix \o errorMessage,
                         model |-> <<>>, failed |-> TRUE])
  /\ isLoading' = (IF ok THEN FALSE ELSE isLoading)
  /\ requests' = requests - 1
  /\ UNCHANGED <<editorVars, store, diagnostics, clock, modalVars>>
  /\ UNCHANGED <<exportVars, reportVars>>

\* handleSubmit after the await: the provider answered (try) or failed (catch), finally
queryResolves(ok, content, model, errorMessage) ==
  /\ requests > 0
  /\ messages' = Append(messages,
                   IF ok
                   THEN [role |-> "assistant", content |-> content, model |-> model,
                         failed |-> FALSE]
                   ELSE [role |-> "assistant", content |-> ErrorPrefix \o errorMessage,
                         model |-> <<>>, failed |-> TRUE])
  /\ isLoading' = FALSE
  /\ requests' = requests - 1
  /\ UNCHANGED <<editorVars, store, diagnostics, clock, modalVars>>
  /\ UNCHANGED <<exportVars, reportVars>>

(***************************************************************************)
(* insertAIContent of EditorPane (both builds): the insertContent command, *)
(* then the 'ai' event.  The command changes nothing when the editor       *)
(* rejects it or the text is empty.                                        *)
(***************************************************************************)
insertAIContent(S, content, model, p, ok, origin) ==
  LET d == IF ok /\ content # <<>>
           THEN InsertAt(doc, p, MarkedText(content, "ai", model, origin, 0))
           ELSE doc
      S1 == RunCommand(S, doc, d, clock, origin)
  IN [doc |-> d,
      S |-> [S1 EXCEPT
               !.events = logProvenanceEvent(S1.events, "ai", content, model,
                                             Len(content), clock, origin),
               !.eventsC = logProvenanceEvent(S1.eventsC, "ai", content, model,
                                              Len(content), clock, origin)]]

\* App.handleInsertAIText: the skip function stored by onReady, then insertAIContent
handleInsertAIText(S, content, model, p, ok, origin) ==
  insertAIContent(incSkipCount(setSkipFlag(S)), content, model, p, ok, origin)

\* a handler that takes message.model as it is, without the selected model as default
handleInsertResponseNoDefault(i, p, ok) ==
  /\ i \in 1..Len(messages)
  /\ LET message == messages[i]
         model == message.model
         S0 == setSkipFlag(Programmatic(Tracking))
         S1 == IF panelSkip THEN incSkipCount(S0) ELSE S0
         r == handleInsertAIText(S1, message.content, model, p, ok,
                                 IF message.failed THEN "error" ELSE "ai")
     IN IF message.role = "assistant"
        THEN Commit(r.doc, r.S, IF r.doc # doc THEN NonBlank(message.content) ELSE 0)
        ELSE UNCHANGED editorVars
  /\ UNCHANGED <<store, diagnostics, clock, panelVars, modalVars>>
  /\ UNCHANGED <<exportVars, reportVars>>

\* AssistantPanel.handleInsertResponse, from the 'Insert into Document' button
handleInsertResponse(i, p, ok) ==
  /\ i \in 1..Len(messages)
  /\ LET message == messages[i]
         model == IF message.model # <<>> THEN message.model ELSE SelectedModel
         S0 == setSkipFlag(Programmatic(Tracking))
         S1 == IF panelSkip THEN incSkipCount(S0) ELSE S0
         r == handleInsertAIText(S1, message.content, model, p, ok,
                                 IF message.failed THEN "error" ELSE "ai")
     IN IF message.role = "assistant"
        THEN Commit(r.doc, r.S, IF r.doc # doc THEN NonBlank(message.content) ELSE 0)
        ELSE UNCHANGED editorVars
  /\ UNCHANGED <<store, diagnostics, clock, panelVars, modalVars>>
  /\ UNCHANGED <<exportVars, reportVars>>

\* App re-renders (onToggle): the panel receives skipEditorUpdateFunctionRef.current
AppRender ==
  /\ ~panelSkip
  /\ panelSkip' = TRUE
  /\ UNCHANGED <<doc, hook, events, inflight, pane, eventsC, outstanding, last,
                 store, diagnostics, clock, panelVars, modalVars>>
  /\ UNCHANGED <<exportVars, reportVars>>

\* a settlement whose rejection nothing catches or reports
InvokeSettlesUncaught(i, ok) ==
  /\ i \in inflight
  /\ inflight' = inflight \ {i}
  /\ IF ok THEN store' = Append(store, i) ELSE UNCHANGED store
  /\ UNCHANGED <<doc, hook, events, pane, eventsC, clock, outstanding, last,
                 panelSkip, panelVars, modalVars, diagnostics>>
  /\ UNCHANGED <<exportVars, reportVars>>

(***************************************************************************)
(* The pending invoke of event i settles: the backend appended it, or the  *)
(* call was rejected and the catch block reported it.                      *)
(***************************************************************************)
InvokeSettles(i, ok) ==
  /\ i \in inflight
  /\ inflight' = inflight \ {i}
  /\ IF ok
     THEN store' = Append(store, i) /\ UNCHANGED diagnostics
     ELSE diagnostics' = diagnostics \cup {i} /\ UNCHANGED store
  /\ UNCHANGED <<doc, hook, events, pane, eventsC, clock, outstanding, last,
                 panelSkip, panelVars, modalVars>>
  /\ UNCHANGED <<exportVars, reportVars>>

\* a millisecond passes
Tick ==
  /\ clock < MaxClock
  /\ clock' = clock + 1
  /\ UNCHANGED <<editorVars, store, diagnostics, panelVars, modalVars>>
  /\ UNCHANGED <<exportVars, reportVars>>

Edit ==
  \/ \E c \in {"a", " "}, p \in Cursor(doc) : HumanType(c, p)
  \/ HumanDelete
  \/ \E text \in ShortPastes, p \in Cursor(doc), applied \in BOOLEAN :
       handlePaste(text, p, applied)
  \/ \E p \in Cursor(doc) : handlePaste(LongPaste, p, FALSE)
  \/ \E v \in CitationInputs : setCitation(v)
  \/ \E ok1 \in BOOLEAN : handleSubmitCitation(ok1)
  \/ handleCitationCancel
  \/ \E inputValue \in Prompts : handleSubmit(inputValue)
  \/ \E content \in Completions, model \in Models :
       queryResolves(TRUE, content, model, <<>>)
  \/ \E errorMessage \in ProviderErrors : queryResolves(FALSE, <<>>, <<>>, errorMessage)
  \/ \E i \in 1..Len(messages), p \in Cursor(doc), ok \in BOOLEAN :
       handleInsertResponse(i, p, ok)
  \/ AppRender

(***************************************************************************)
(* Spec: the authoring session (editor, citation dialog, assistant panel). *)
(* The invoke calls stay pending; their settlement changes only inflight,  *)
(* store and diagnostics, which no handler reads, and is added in SpecLog. *)
(***************************************************************************)
Next == Edit

Spec == Init /\ [][Next]_vars

(***************************************************************************)
(* SpecLog: typing and assistant insertions, with the                      *)
(* settlement of the invoke calls and the clock.                           *)
(***************************************************************************)
NextLog ==
  \/ \E c \in {"a", " "}, p \in Cursor(doc) : HumanType(c, p)
  \/ \E inputValue \in Prompts : handleSubmit(inputValue)
  \/ \E content \in Completions, model \in Models :
       queryResolves(TRUE, content, model, <<>>)
  \/ \E i \in 1..Len(messages), p \in Cursor(doc), ok \in BOOLEAN :
       handleInsertResponse(i, p, ok)
  \/ \E i \in inflight, ok \in BOOLEAN : InvokeSettles(i, ok)
  \/ Tick

SpecLog == Init /\ [][NextLog]_vars

(***************************************************************************)
(* SpecCite: typing, long pastes and the citation dialog.                  *)
(***************************************************************************)
NextCite ==
  \/ \E c \in {"a", " "}, p \in Cursor(doc) : HumanType(c, p)
  \/ \E p \in Cursor(doc) : handlePaste(LongPaste, p, FALSE)
  \/ \E v \in CitationInputs : setCitation(v)
  \/ \E ok1 \in BOOLEAN : handleSubmitCitation(ok1)
  \/ handleCitationCancel

SpecCite == Init /\ [][NextCite]_vars

(***************************************************************************)
(* SpecPanel: typing, short pastes and the assistant panel.                *)
(***************************************************************************)
NextPanel ==
  \/ \E c \in {"a", " "}, p \in Cursor(doc) : HumanType(c, p)
  \/ HumanDelete
  \/ \E text \in ShortPastes, p \in Cursor(doc), applied \in BOOLEAN :
       handlePaste(text, p, applied)
  \/ \E inputValue \in Prompts : handleSubmit(inputValue)
  \/ \E content \in Completions, model \in Models :
       queryResolves(TRUE, content, model, <<>>)
  \/ \E errorMessage \in ProviderErrors : queryResolves(FALSE, <<>>, <<>>, errorMessage)
  \/ \E i \in 1..Len(messages), p \in Cursor(doc), ok \in BOOLEAN :
       handleInsertResponse(i, p, ok)
  \/ AppRender

SpecPanel == Init /\ [][NextPanel]_vars

\* the pending invoke('query_ai_assistant') settles: the promise is
\* fulfilled or rejected
Settles ==
  \/ \E content \in Completions, model \in Models :
       queryResolves(TRUE, content, model, <<>>)
  \/ \E errorMessage \in ProviderErrors : queryResolves(FALSE, <<>>, <<>>, errorMessage)

\* SpecPanel with a backend that ends every command it was given
SpecPanelFair == SpecPanel /\ WF_vars(Settles)

(***************************************************************************)
(* SpecVerify: key generation, export, tampering with the exported file    *)
(* and runs of the verifier.                                               *)
(***************************************************************************)
ProvidedKeys == {NoKey} \cup {load_keypair(k).public_key : k \in KeyIds}

NextVerify ==
  \/ \E k \in KeyIds : generate_keypair(k)
  \/ \E m \in Manifests : handleExport(m)
  \/ \E m \in Manifests, pretty \in BOOLEAN : Tamper(m, pretty)
  \/ \E provided_key \in ProvidedKeys : RunVerify(provided_key)

SpecVerify == Init /\ [][NextVerify]_vars

(***************************************************************************)
(* SpecAudit: exports of manifests whose stated percentage and embedded    *)
(* events vary, rewrites of the embedded manifest and runs of the verifier.*)
(***************************************************************************)
NextAudit ==
  \/ \E k \in KeyIds : generate_keypair(k)
  \/ \E m \in Statements \cup Manifests : handleExport(m)
  \/ \E m \in Statements, pretty \in BOOLEAN : Tamper(m, pretty)
  \/ \E provided_key \in ProvidedKeys : RunVerify(provided_key)

SpecAudit == Init /\ [][NextAudit]_vars

(***************************************************************************)
(* SpecClassify: the classifier on documents and on HTML contents, and the *)
(* manifest of a content without events.                                   *)
(***************************************************************************)
NextClassify ==
  \/ \E d \in Documents : classifyDocument(d)
  \/ \E content \in Contents : classifyContent(content)
  \/ \E content \in {<<>>, <<Char("x")>>} : generateCompleteManifest(content, generated.events)

SpecClassify == Init /\ [][NextClassify]_vars

(***************************************************************************)
(* SpecManifest: a caller that fills an array of events and hands it to     *)
(* generateCompleteManifest.                                               *)
(***************************************************************************)
NextManifest ==
  \/ \E e \in LoggedEvents : push(e)
  \/ \E content \in {<<>>, <<Char("x")>>} : generateCompleteManifest(content, generated.events)

SpecManifest == Init /\ [][NextManifest]_vars

(***************************************************************************)
(* SpecHash: calls of hashContent, and of generateCompleteManifest with    *)
(* no events, on contents that render the same text in different ways.     *)
(***************************************************************************)
NextHash ==
  \/ \E content \in HashedContents : callHashContent(content)
  \/ \E content \in HashedContents : generateCompleteManifest(content, generated.events)

SpecHash == Init /\ [][NextHash]_vars

(***************************************************************************)
(* SpecValidate: validateProvenanceEvent on every partial event.           *)
(***************************************************************************)
NextValidate == \E event \in PartialEvents : callValidateProvenanceEvent(event)

SpecValidate == Init /\ [][NextValidate]_vars

(***************************************************************************)
(* SpecCanon: export, the embedded block written anew by another           *)
(* serializer, and verification.                                           *)
(***************************************************************************)
NextCanon ==
  \/ \E k \in KeyIds : generate_keypair(k)
  \/ \E m \in Statements \cup Manifests : handleExport(m)
  \/ \E spaced \in BOOLEAN : Reserialize(spaced)
  \/ \E provided_key \in ProvidedKeys : RunVerify(provided_key)

SpecCanon == Init /\ [][NextCanon]_vars

(***************************************************************************)
(* SpecDiff: the update handlers on every text after every text.           *)
(***************************************************************************)
NextDiff == \E newText \in Texts : update(newText)

SpecDiff == Init /\ [][NextDiff]_vars

(***************************************************************************)
(* Properties of the skip protocol and of the event log.                   *)
(***************************************************************************)
Updates == {last.updates[i] : i \in 1..Len(last.updates)}

EventsOf(evs) == {evs[i] : i \in 1..Len(evs)}

ProgrammaticCauses == {"ai", "error", "cited", "link", "note"}

\* C1: an update notification is skipped exactly when a programmatic
\* insertion that requested a skip still waits for its notification: after N
\* such requests the next N notifications are skipped, and the one after
\* them, a human edit, is diffed and (if it inserted non-blank text) logged
\* as human.  Stated for the boolean flag and for the counter.
C1_SkipsMatchRequests ==
  \A u \in Updates :
    /\ u.skippedHook <=> u.pending > 0
    /\ u.skippedPane <=> u.pending > 0
    /\ (u.pending = 0 /\ u.cause = "human") => (u.loggedHook /\ u.loggedPane)

\* C2: no event of type human carries text that an AI insertion, a cited
\* paste, or the source note of a citation put in the document.
C2_NoHumanEventForProgrammaticText ==
  \A e \in EventsOf(events) \cup EventsOf(eventsC) :
    e.event_type = "human" => e.cause \notin ProgrammaticCauses

\* C3: a handler that realized one insertion of non-whitespace text (typed
\* text, a short paste, an AI insertion, a confirmed citation) logged
\* exactly one event for it, in either build.
C3_OneEventPerInsertion ==
  last.realized = 1 => (last.logged = 1 /\ last.loggedC = 1)

\* C4: a handler that left the document unchanged (empty content, rejected
\* command, default paste not applied) logged no event.
C4_NoEventWithoutInsertion ==
  ~last.changed => (last.logged = 0 /\ last.loggedC = 0)

\* C5: cancelling the citation dialog leaves the document (text and marks),
\* the skip flag and counter, lastContent and both event logs unchanged,
\* closes the dialog with pastedText cleared, and the cancelled paste is
\* never in the document afterwards.
C5_CancelLeavesNoTrace ==
  /\ [][cancelled' # cancelled =>
          /\ UNCHANGED <<doc, hook, pane, events, eventsC>>
          /\ ~citationModal'.isOpen
          /\ citationModal'.pastedText = <<>>]_vars
  /\ [](\A i \in 1..Len(doc) : doc[i].paste \notin cancelled)

\* a paste was cancelled, and a later paste was confirmed and is in the document
C5_Witness ==
  /\ cancelled # {}
  /\ ~citationModal.isOpen
  /\ \E i \in 1..Len(doc) : doc[i].origin = "cited" /\ doc[i].paste \notin cancelled

\* C6: nothing of a failed AI request is in the document, and no ai event
\* was logged for it.
C6_FailedRequestInsertsNothing ==
  /\ \A i \in 1..Len(doc) : doc[i].origin # "error"
  /\ \A e \in EventsOf(events) \cup EventsOf(eventsC) : e.cause # "error"

\* C7: a rejected append is caught: the step that settles it changes
\* nothing of the document, the skip flag and counter, lastContent or the
\* event sequences (as a fulfilled one changes nothing of them), the
\* failure is reported, and every event, earlier or later, is pending,
\* appended or reported.
C7_PersistenceFailureContained ==
  /\ [][diagnostics' # diagnostics =>
          UNCHANGED <<doc, hook, pane, events, eventsC, panelSkip, messages, isLoading>>]_vars
  /\ [](\A i \in 1..Len(events) :
          i \in inflight \/ i \in diagnostics \/ \E j \in 1..Len(store) : store[j] = i)

\* an append failed, and an insertion after it was classified and appended
C7_Witness ==
  \E i \in diagnostics : \E j \in 1..Len(store) :
    /\ store[j] > i
    /\ events[store[j]].event_type = "ai"
    /\ events[i].event_type = "human"

\* the file is the export of the last signed manifest, as written
Pristine == file.exists /\ file.text = export_signed_document(signedManifest)

EmbeddedKey == load_keypair(file.signedBy).public_key

\* the embedded block of the file can be located and decoded
WellFormed == file.exists /\ Parses(ManifestJson(file.text))

\* C8: verifying the export of a signed manifest yields VALID, with the
\* signer's public key supplied and with no key supplied.
C8_RoundTripValid ==
  (verification.ran /\ Pristine /\ verification.provided_key \in {NoKey, EmbeddedKey})
    => verification.result = Ok(TRUE)

\* C9: a supplied key that differs from the embedded key of a well-formed
\* artifact yields the key-mismatch result, which is neither the
\* invalid-signature result nor a malformed-artifact result, whether or not
\* the signature is valid.
C9_KeyMismatch ==
  (verification.ran /\ WellFormed
     /\ verification.provided_key # NoKey /\ verification.provided_key # EmbeddedKey)
    => /\ verification.result = KeyMismatch
       /\ verification.result # Ok(FALSE)
       /\ verification.result.error \notin MalformedErrors

\* a mismatching key was supplied for a tampered artifact
C9_Witness ==
  /\ verification.ran /\ WellFormed
  /\ verification.provided_key # NoKey /\ verification.provided_key # EmbeddedKey
  /\ file.embedded # file.signed

Terminal(result) ==
  IF result = Ok(TRUE) THEN "VALID"
  ELSE IF result = Ok(FALSE) THEN "INVALID_SIGNATURE"
  ELSE IF result = KeyMismatch THEN "KEY_MISMATCH"
  ELSE IF result.error \in MalformedErrors THEN "MALFORMED_ARTIFACT"
  ELSE "UNDIFFERENTIATED"

\* the sum of span_length over the events of the given types
RECURSIVE SpanSum(_, _)
SpanSum(es, types) ==
  IF es = <<>> THEN 0
  ELSE (IF Head(es).event_type \in types THEN Head(es).span_length ELSE 0)
       + SpanSum(Tail(es), types)

\* the stated human percentage is the one recomputed from the events:
\* human over total, 100 when the total is 0
Consistent(m) ==
  LET total == SpanSum(m.events, {"human", "ai", "cited"})
  IN IF total = 0 THEN m.human_percentage = 100
     ELSE m.human_percentage * total = 100 * SpanSum(m.events, {"human"})

\* the manifest embedded in the file
EmbeddedManifest == FromLex(Lex(ManifestJson(file.text))).manifest

\* the embedded signature is the signer's signature of the embedded manifest
SignatureValid == file.embedded = file.signed

KeyAccepted == verification.provided_key \in {NoKey, EmbeddedKey}

\* C11: an artifact with a valid signature whose stated percentages differ
\* from those recomputed from its embedded events is not reported VALID.
C11_InconsistentManifestReported ==
  (verification.ran /\ WellFormed /\ KeyAccepted /\ SignatureValid
     /\ ~Consistent(EmbeddedManifest))
    => Terminal(verification.result) # "VALID"

\* the result of the first failing stage: parse, key check, signature
\* check, consistency check
FirstFailingStage ==
  IF ~WellFormed THEN "MALFORMED_ARTIFACT"
  ELSE IF ~KeyAccepted THEN "KEY_MISMATCH"
  ELSE IF ~SignatureValid THEN "INVALID_SIGNATURE"
  ELSE IF ~Consistent(EmbeddedManifest) THEN "INCONSISTENT_MANIFEST"
  ELSE "VALID"

\* C12: every run of the verifier returns the terminal state of the first
\* failing stage in the order parse, key check, signature check,
\* consistency check, and VALID only when all four pass.
C12_FirstFailingStage ==
  verification.ran => Terminal(verification.result) = FirstFailingStage

(***************************************************************************)
(* Properties of the classifier.                                           *)
(***************************************************************************)
Classified == classified.by # "none"

\* the three percentages add up to 100
SumIs100(stats) ==
  /\ stats.humanPercentage.den = stats.aiPercentage.den
  /\ stats.aiPercentage.den = stats.citedPercentage.den
  /\ stats.humanPercentage.num + stats.aiPercentage.num + stats.citedPercentage.num
       = 100 * stats.humanPercentage.den

Is(percentage, n) == percentage.num = n * percentage.den

\* C13: for a document whose text is not empty the three percentages of the
\* classifier add up to 100 and totalCharacters is greater than 0.
C13_PercentagesSumTo100 ==
  (Classified /\ classified.text # <<>>)
    => SumIs100(classified.stats) /\ classified.stats.totalCharacters > 0

\* C14: for a document with no text the classifier reports 100 % human,
\* 0 % ai, 0 % cited and 0 characters, in the live statistics and in the
\* manifest.
C14_EmptyDocumentIsHuman ==
  /\ (Classified /\ classified.text = <<>>)
       => /\ Is(classified.stats.humanPercentage, 100)
          /\ Is(classified.stats.aiPercentage, 0)
          /\ Is(classified.stats.citedPercentage, 0)
          /\ classified.stats.totalCharacters = 0
  /\ (generated.ran /\ textContent(generated.content) = <<>>)
       => /\ Is(generated.manifest.human_percentage, 100)
          /\ Is(generated.manifest.ai_percentage, 0)
          /\ Is(generated.manifest.cited_percentage, 0)
          /\ generated.manifest.total_characters = 0

\* the classified document or content carries no mark at all
Unmarked ==
  /\ \A i \in 1..Len(classified.doc) :
       classified.doc[i].type = "none" /\ classified.doc[i].link = <<>>
  /\ \A i \in 1..Len(classified.content) :
       classified.content[i].kind = "open" => classified.content[i].tag = "p"

\* C15: a document of unmarked text of length n > 0 is classified as n
\* characters, 100 % human.
C15_UnmarkedTextIsHuman ==
  (Classified /\ Unmarked /\ classified.text # <<>>)
    => /\ classified.stats.totalCharacters = Len(classified.text)
       /\ Is(classified.stats.humanPercentage, 100)

\* C16: totalCharacters is the length of the document text: every character
\* is counted in exactly one category.
C16_EveryCharacterCountedOnce ==
  Classified => classified.stats.totalCharacters = Len(classified.text)

(***************************************************************************)
(* Properties of the diff.                                                 *)
(***************************************************************************)
\* C17: when the new text is not longer than the old one (the same text, a
\* deletion, a replacement of the same length) the update handler logs no
\* event; and the text inserted between a text and itself is empty.
C17_NoInsertionWithoutGrowth ==
  diffed.ran =>
    /\ Len(diffed.newText) <= Len(diffed.oldText)
         => diffed.events = <<>> /\ diffed.eventsC = <<>>
    /\ diffed.newText = diffed.oldText => diffed.insertedText = <<>>

\* a character was replaced by another one, and a text was left as it was
C17_Witness ==
  /\ diffed.ran /\ Len(diffed.newText) = Len(diffed.oldText)
  /\ Trim(diffed.newText) # <<>>
  /\ diffed.newText # diffed.oldText

\* the places and strings whose insertion into the old text gives the new one
Insertions ==
  {ps \in (0..Len(diffed.oldText)) \X (Texts \ {<<>>}) :
     InsertAt(diffed.oldText, ps[1], ps[2]) = diffed.newText}

\* the length of the longest common prefix of the two texts
CommonPrefix ==
  CHOOSE n \in 0..Len(diffed.oldText) :
    /\ n <= Len(diffed.newText)
    /\ SubSeq(diffed.oldText, 1, n) = SubSeq(diffed.newText, 1, n)
    /\ \/ n = Len(diffed.oldText) \/ n = Len(diffed.newText)
       \/ diffed.oldText[n + 1] # diffed.newText[n + 1]

\* C18: when the new text is the old text with a string s inserted at one
\* place, findInsertedText returns a string as long as s whose insertion
\* right after the longest common prefix of the two texts gives the new text.
C18_InsertedTextRebuildsNew ==
  (diffed.ran /\ Insertions # {})
    => /\ \A ps \in Insertions : Len(diffed.insertedText) = Len(ps[2])
       /\ InsertAt(diffed.oldText, CommonPrefix, diffed.insertedText) = diffed.newText

\* a string was inserted inside a text, after the place where the two texts
\* begin to differ
C18_Witness ==
  /\ diffed.ran
  /\ \E ps \in Insertions : 0 < ps[1] /\ ps[1] < Len(diffed.oldText) /\ ps[1] < CommonPrefix

\* C19: no human event is logged for an insertion of whitespace only,
\* neither for typed whitespace nor for a pasted text of at most 10
\* characters that is all whitespace.
C19_NoHumanEventForWhitespace ==
  \A e \in EventsOf(events) \cup EventsOf(eventsC) :
    e.event_type = "human"
      => /\ e.cause # "blank"
         /\ e.cause = "paste" => Trim(e.text) # <<>>

(***************************************************************************)
(* Properties of generateCompleteManifest.                                 *)
(***************************************************************************)
\* the ways to read the returned array as a rearrangement of the input:
\* position i of the result holds the element that stood at input position f[i]
Rearrangements ==
  {f \in [1..Len(generated.returned) -> 1..Len(generated.input)] :
     /\ \A i, j \in 1..Len(generated.returned) : i # j => f[i] # f[j]
     /\ \A i \in 1..Len(generated.returned) : generated.returned[i] = generated.input[f[i]]}

\* C20: the events generateCompleteManifest returns are the input events,
\* each once, in ascending order of their timestamps, events of equal
\* timestamp in their input order.
C20_EventsSortedStably ==
  generated.ran =>
    /\ Len(generated.returned) = Len(generated.input)
    /\ \E f \in Rearrangements :
         \A i, j \in 1..Len(generated.returned) :
           i < j => LET a == getTime(generated.returned[i].timestamp)
                        b == getTime(generated.returned[j].timestamp)
                    IN a < b \/ (a = b /\ f[i] < f[j])

\* the call moved an event, and two different events of the same instant
\* were in the array
C20_Witness ==
  /\ generated.ran
  /\ generated.returned # generated.input
  /\ \E i, j \in 1..Len(generated.input) :
       /\ i < j
       /\ generated.input[i] # generated.input[j]
       /\ getTime(generated.input[i].timestamp) = getTime(generated.input[j].timestamp)

(***************************************************************************)
(* C21.  The events of a manifest built from the log stand in the order in *)
(* which their insertions happened in the document, also when two events   *)
(* carry the same timestamp and when their invoke calls settle in another  *)
(* order than they were issued.                                            *)
(***************************************************************************)
\* the rows of the events table in the order of their id, each with the
\* position of its call among the calls of logProvenanceEvent
StoredRows ==
  [k \in 1..Len(store) |->
     [timestamp |-> toISOString(events[store[k]].timestamp), call |-> store[k]]]

C21_ManifestInInsertionOrder ==
  LET listed == sort(StoredRows)
  IN \A i, j \in 1..Len(listed) : i < j => listed[i].call < listed[j].call

(***************************************************************************)
(* C22.  hashContent is a function of its input: two calls return the same *)
(* hash exactly when they were given the same content, and every hash is a *)
(* string of 64 lowercase hexadecimal characters.                          *)
(***************************************************************************)
LowercaseHex == {HexDigits[i] : i \in 1..16}

CanonicalText(content) == TrimWs(textContent(content))

C23_HashOfCanonicalText ==
  generated.ran =>
    \A content \in HashedContents :
      CanonicalText(content) = CanonicalText(generated.content)
        => hashContent(content) = generated.manifest.document_hash

(***************************************************************************)
(* C24.  validateProvenanceEvent returns no error exactly when the event   *)
(* has a non-empty timestamp, an event_type among human, ai and cited, a   *)
(* non-empty source and a numeric span_length >= 0; each condition that is *)
(* violated contributes its own message, and the event is not modified.    *)
(***************************************************************************)
NonEmpty(value) == value.typeof = "string" /\ value.string # ""

KnownType(value) == value.typeof = "string" /\ value.string \in {"human", "ai", "cited"}

\* a number that is >= 0: NaN is not
NonNegative(value) == value.typeof = "number" /\ ~value.nan /\ value.number >= 0

Reported(message) == \E i \in 1..Len(validated.errors) : validated.errors[i] = message

C24_ValidationErrors ==
  validated.ran =>
    /\ Reported("Timestamp is required") <=> ~NonEmpty(validated.event.timestamp)
    /\ Reported("Event type must be human, ai, or cited")
         <=> ~KnownType(validated.event.event_type)
    /\ Reported("Source is required") <=> ~NonEmpty(validated.event.source)
    /\ Reported("Span length must be a non-negative number")
         <=> ~NonNegative(validated.event.span_length)
    /\ Len(validated.errors) <= 4
    /\ validated.after = validated.event

(***************************************************************************)
(* C25.  For every manifest the bytes the verifier recomputes from the     *)
(* embedded block equal the bytes the signer signed, whatever the order of *)
(* the keys and the whitespace of the block.                               *)
(***************************************************************************)
C25_CanonicalBytesAgree ==
  (verification.ran /\ file.embedded = file.signed)
    => \E lex \in {Lex(ManifestJson(file.text))} :
         /\ ParsesLex(lex)
         /\ to_string(FromLex(lex).manifest) = file.signed

(***************************************************************************)
(* C26.  When signing fails, in particular when no key pair has been       *)
(* generated, handleExport writes no artifact and reports the failure to   *)
(* the user; an artifact is written only in a run in which sign_document   *)
(* returned a signed manifest.                                             *)
(***************************************************************************)
C26_NoArtifactWithoutSignature ==
  /\ keys = 0 => ~file.exists
  /\ file.exists => signedManifest # NoSignedManifest /\ file.signedBy \in KeyIds
  /\ alerted.kind # "none" =>
       /\ alerted.wrote => alerted.signed
       /\ ~alerted.signed => alerted.kind = "failed" /\ alerted.message[1] = "Export failed: "
       /\ keys = 0 => alerted.message = <<"Export failed: ", "Public key not found">>

\* an export was attempted before any key pair was generated
C26_Witness == keys = 0 /\ alerted.kind = "failed" /\ ~file.exists

(***************************************************************************)
(* C27.  The private key appears in no SignedManifest, no exported         *)
(* artifact and no message to the user or the console; a SignedManifest    *)
(* holds the manifest, the signature, the public key and the timestamp     *)
(* and nothing else.                                                       *)
(***************************************************************************)
\* the private key of a key pair, as bytes and as the text of its file
PrivateKeys == {SecretKeyBytes(k) : k \in KeyIds}

Holds(text, x) == \E i \in 1..Len(text) : text[i] = x

OfPaste(d, id) == SelectSeq(d, LAMBDA c : c.paste = id)

\* the events a step appended to evs
Appended(evs, evs2) == {evs2[i] : i \in (Len(evs) + 1)..Len(evs2)}

\* the step is a confirmation of the open citation dialog
Confirms == citationModal.isOpen /\ ~citationModal'.isOpen /\ cancelled' = cancelled

\* C28: a paste of more than 10 characters opens the dialog and nothing of
\* it is in the document while the dialog is open; the dialog is confirmed
\* only with a citation that is non-empty after trimming, and the
\* confirmation inserts the pasted text exactly once, every character of it
\* marked cited with the trimmed citation as source, and logs exactly one
\* cited event, with that source and the length of the pasted text.
C28_CitedPasteOnConfirm ==
  /\ [](citationModal.isOpen =>
          /\ Len(citationModal.pastedText) > PasteThreshold
          /\ OfPaste(doc, citationModal.paste) = <<>>)
  /\ [][Confirms =>
          /\ Trim(citation) # <<>>
          /\ getText(OfPaste(doc', citationModal.paste)) = citationModal.pastedText
          /\ \A i \in 1..Len(doc') :
               doc'[i].paste = citationModal.paste =>
                 doc'[i].type = "cited" /\ doc'[i].source = Trim(citation)
          /\ \A evs \in {<<events, events'>>, <<eventsC, eventsC'>>} :
               \E e \in Appended(evs[1], evs[2]) :
                 /\ e.event_type = "cited"
                 /\ e.source = Trim(citation)
                 /\ e.span_length = Len(citationModal.pastedText)
                 /\ \A f \in Appended(evs[1], evs[2]) : f.event_type = "cited" => f = e]_vars

\* C29: between handlers no programmatic insertion is in progress, and the
\* skip counter is 0 and the skip flag is clear: every request of a skip
\* was answered by the update notification of its own insertion, also for
\* an insertion started from the assistant panel and for one that changed
\* nothing.
C29_NoSkipLeftBehind ==
  /\ pane.skipUpdateCountRef = 0
  /\ ~hook.skipNextUpdateRef

\* the character counts of calculateProvenanceStats
Counts(d) == visitAll(descendants(d))

\* the step ran insertAIContent on a non-failed answer
InsertsAI ==
  \E e \in Appended(events, events') : e.event_type = "ai" /\ e.cause = "ai"

\* C30: text inserted by the program is not counted human: an AI insertion
\* that changed the document raises the ai count by the length of the
\* content, a confirmed citation that changed the document raises the cited
\* count by the length of the pasted text, for a URL and for any other
\* citation, and neither raises the human count or the other of the two.
C30_ProgrammaticTextNotHuman ==
  [][/\ (InsertsAI /\ doc' # doc) =>
          /\ \E e \in Appended(events, events') :
               Counts(doc').ai = Counts(doc).ai + Len(e.text)
          /\ Counts(doc').cited = Counts(doc).cited
          /\ Counts(doc').human = Counts(doc).human
     /\ (Confirms /\ doc' # doc) =>
          /\ Counts(doc').cited = Counts(doc).cited + Len(citationModal.pastedText)
          /\ Counts(doc').ai = Counts(doc).ai
          /\ Counts(doc').human = Counts(doc).human]_vars

(***************************************************************************)
(* Properties of the event log against the document.                       *)
(***************************************************************************)
\* the character counts the events add up to: span_length per category
EventCounts(evs) ==
  [human |-> SpanSum(evs, {"human"}), ai |-> SpanSum(evs, {"ai"}),
   cited |-> SpanSum(evs, {"cited"})]

\* two counts give the same three percentages
SamePercentages(a, b) ==
  LET ta == a.human + a.ai + a.cited
      tb == b.human + b.ai + b.cited
  IN /\ ta = 0 <=> tb = 0
     /\ a.human * tb = b.human * ta
     /\ a.ai * tb = b.ai * ta
     /\ a.cited * tb = b.cited * ta

\* C31: in a session without deletions the percentages recomputed from
\* the logged events (span_length summed per category) are the percentages
\* the classifier computes from the document.
C31_EventsAgreeWithClassifier ==
  SamePercentages(EventCounts(events), Counts(doc))

\* a string of the model as a JavaScript string
RECURSIVE JsString(_)
JsString(t) == IF t = <<>> THEN "" ELSE Head(t) \o JsString(Tail(t))

\* the event object logProvenanceEvent hands to invoke
EventObject(e) ==
  [timestamp |-> [typeof |-> "string", string |-> toISOString(e.timestamp),
                  number |-> 0, nan |-> FALSE],
   event_type |-> [typeof |-> "string", string |-> e.event_type, number |-> 0, nan |-> FALSE],
   source |-> [typeof |-> "string", string |-> JsString(e.source), number |-> 0, nan |-> FALSE],
   span_length |-> [typeof |-> "number", string |-> "", number |-> e.span_length,
                    nan |-> FALSE]]

\* C32: every event handed to invoke, in either build, has a type among
\* human, ai and cited, a span_length that is the length of its text, a
\* non-empty source ('user' for a human event) and a timestamp, and
\* validateProvenanceEvent returns no error for it.
C32_LoggedEventsAreValid ==
  \A e \in EventsOf(events) \cup EventsOf(eventsC) :
    /\ e.event_type \in {"human", "ai", "cited"}
    /\ e.span_length = Len(e.text)
    /\ e.span_length >= 0
    /\ e.source # <<>>
    /\ e.event_type = "human" => e.source = User
    /\ toISOString(e.timestamp) # ""
    /\ validateProvenanceEvent(EventObject(e)) = <<>>

\* the answer of a failed request, which has no model, was inserted: its ai
\* event carries the selected model; and a human event was logged
C32_Witness ==
  /\ \E e \in EventsOf(events) :
       e.event_type = "ai" /\ e.cause = "error" /\ e.source = SelectedModel
  /\ \E e \in EventsOf(events) : e.event_type = "human"

\* the text of the editor before the command whose notification has the
\* given cause, in a step that inserted at offset p: the text after the
\* step without the characters that command put in
TextBefore(p, cause) ==
  LET n == Len(doc') - Len(doc)
  IN getText(SubSeq(doc', 1, p)
             \o SelectSeq(SubSeq(doc', p + 1, p + n), LAMBDA c : c.origin # cause)
             \o SubSeq(doc', p + n + 1, Len(doc')))

\* C33: after every handler lastContent is the text of the editor, in both
\* builds, skipped notifications included; and the text of a human event
\* logged by a step that changed the document is an insertion into the
\* text the notification before it left: it is as long as what the command
\* of its own notification inserted and, put into that text, gives the
\* text of the editor, so it holds nothing that was delivered before.
C33_LastContentIsCurrentText ==
  /\ [](hook.lastContentRef = getText(doc) /\ pane.lastContentRef = getText(doc))
  /\ [][doc' # doc =>
          \A e \in {f \in Appended(events, events') \cup Appended(eventsC, eventsC') :
                      f.event_type = "human"} :
            /\ Len(doc') > Len(doc)
            /\ \E old \in {getText(doc)}, new \in {getText(doc')} :
                 \E p \in 0..Len(old) :
                   /\ new = InsertAt(old, p, SubSeq(new, p + 1, p + Len(new) - Len(old)))
                   /\ \E before \in {TextBefore(p, e.cause)} :
                        /\ Len(before) + Len(e.text) = Len(new)
                        /\ \E q \in 0..Len(before) : new = InsertAt(before, q, e.text)]_vars

\* a handler emitted two notifications: the first was skipped, the second
\* was diffed and logged text that is shorter than what the handler added
C33_Witness ==
  /\ Len(last.updates) = 2
  /\ last.updates[1].skippedHook /\ last.updates[1].skippedPane
  /\ last.updates[2].loggedHook /\ last.updates[2].loggedPane
  /\ hook.lastContentRef = getText(doc)
  /\ \E e, c \in EventsOf(events) :
       e.cause = "note" /\ c.event_type = "cited" /\ e.text = SourceNote(c.source)

\* C34: the build with the boolean skip flag and the build with the skip
\* counter, driven by the same edits, AI insertions and confirmations
\* through the same App and AssistantPanel, have logged the same sequence
\* of events.
C34_FlagAndCounterLogTheSame ==
  events = eventsC

\* C35: the statistics calculateProvenanceStats computes from a document
\* are those calculateProvenanceFromText computes from the HTML the editor
\* renders for it: the same three percentages and the same totalCharacters.
C35_ClassifiersAgree ==
  classified.by = "calculateProvenanceStats" =>
    classified.stats = calculateProvenanceFromText(classified.content)

(***************************************************************************)
(* Properties of the arguments of generateCompleteManifest.                *)
(***************************************************************************)
\* the step is a call of generateCompleteManifest: of the two operations on
\* the caller's array only push changes its length
Generates == generated' # generated /\ Len(generated'.events) = Len(generated.events)

\* C36: a call of generateCompleteManifest leaves the caller's array with
\* the same events in the same order, and the events of a manifest that
\* was returned stay as they were returned when the caller changes its
\* array afterwards.
C36_ArgumentsNotModified ==
  /\ [][Generates => generated'.events = generated.events]_vars
  /\ [](generated.ran => generated.events = generated.returned)

\* C37: whenever the citation dialog opens for an intercepted paste its
\* citation input is empty: what was typed into a dialog that was cancelled
\* is not carried over to the next paste.
C37_DialogOpensEmpty ==
  [][(~citationModal.isOpen /\ citationModal'.isOpen) => citation' = <<>>]_vars

(***************************************************************************)
(* Properties of the requests of the assistant panel.                      *)
(***************************************************************************)
\* the messages of the chat with the given role
WithRole(role) == Cardinality({i \in 1..Len(messages) : messages[i].role = role})

====
